---- MODULE Spec2Model ----
(***************************************************************************)
(* Model of the waku Rust bindings: the process-wide node flag and the     *)
(* typestate handle (node/mod.rs), the context-based lifecycle calls       *)
(* (node/management.rs, node/context.rs), the result classifier            *)
(* (general/libwaku_response.rs, utils.rs), the call adapter (macros.rs),   *)
(* the argument buffers and the store query (node/relay.rs,                *)
(* node/store.rs), the event dispatch (node/events.rs), the single        *)
(* conversions: timeouts, content topics, message hashes (node/peers.rs,   *)
(* general/contenttopic.rs, general/messagehash.rs), the threads at the    *)
(* flag's lock (node/mod.rs) and concurrent deliveries of events           *)
(* (node/events.rs, utils.rs).                                             *)
(*                                                                         *)
(* Strings are sequences of one-character strings, so that formatting is   *)
(* concatenation and "byte for byte" is sequence equality.                 *)
(***************************************************************************)
EXTENDS Integers, Sequences, FiniteSets, TLC

VARIABLES
    \* ---- flag-based handle (node/mod.rs) ----
    node_initialized,   \* the value inside WAKU_NODE_INITIALIZED
    handles,            \* live WakuNodeHandle values, counted per state tag
    startedOk,          \* a start() returned Ok on the current node and no stop() was called since
    last,               \* the API call that returned last
    calls,              \* number of API calls made
    inCycles,           \* every call so far followed waku_new -> start -> stop with the native side succeeding
    cyclePos,           \* position inside the current cycle
    cyclesDone,         \* completed cycles
    \* ---- result classifier (general/libwaku_response.rs, macros.rs trampoline) ----
    cl_pc,              \* "input" -> "called" -> "done", or "panicked"
    cl_code,            \* the code the native function returned
    cl_cb,              \* the callback invocation the native side makes, if any
    cl_handler,         \* the classifier the call uses
    cl_outcome,         \* the LibwakuResponse slot of the call
    cl_result,          \* what the caller receives
    cl_runs,            \* how often the trampoline called the closure of the call
    \* ---- context-based node lifecycle (node/management.rs, node/context.rs) ----
    h_handles,          \* live node handles: the context's obj_ptr and the state tag
    h_nextPtr,          \* the next native node the library creates
    h_destroyed,        \* nodes on which waku_destroy was called
    h_status,           \* "running", or "hung" / "panicked" once a call never returns
    h_calls,            \* number of calls made
    h_prev,             \* the call before the last one
    h_last,             \* the call that returned last
    \* ---- call adapter (macros.rs handle_ffi_call, trampoline) ----
    a_pc,               \* per call: "idle", "native", "waiting", "done"
    a_result,           \* per call: `result`, the LibwakuResponse the closure writes
    a_permit,           \* per call: the permit of `notify`
    a_closure,          \* per call: the address of `closure`, passed as user_data
    a_code,             \* per call: the code the native function returned
    a_final,            \* per call: what the caller receives
    a_mem,              \* per address: the closure whose bytes the address holds (0: none)
    a_pending,          \* requests the native side has accepted and not completed
    a_crashed,          \* the callback ran on bytes that are no closure any more
    a_from,             \* per call: the calls whose completions were written into its slot
    a_issued,           \* the calls in the order they were issued
    a_completed,        \* the calls in the order the native side completed them
    a_delivered,        \* per call: the outcomes the native side handed to the callback, in order
    a_access,           \* per call: how its callback found the closure: "none", "live", "released"
    \* ---- argument buffers of a call (node/relay.rs, node/store.rs) ----
    g_fn,               \* the binding function being executed
    g_ok,               \* the argument conversions of the call succeed (no expect() fails)
    g_pc,               \* position inside the function
    g_bufs,             \* per buffer: "none", "held", "released"
    g_native,           \* the native function: "notcalled", "running", "returned"
    g_cb,               \* the callback of the call has fired
    g_log,              \* the releases made so far, each with the native and callback status then
    g_calls,            \* number of calls made
    \* ---- paginated store query (node/store.rs and the walker on top of it) ----
    s_script,           \* what the native store answers to the 1st, 2nd, ... request
    s_pc,               \* "start", "walking", "done", "panicked"
    s_first,            \* the first page request
    s_cursor,           \* the cursor carried to the next request
    s_acc,              \* the accumulator of the walk
    s_requests,         \* the requests handed to the native function, as serialized
    s_responses,        \* the outcome of each page call
    s_result,           \* what the walk returns
    s_uuid,             \* source of request ids
    \* ---- event dispatch (node/events.rs, node/context.rs, macros.rs) ----
    e_variant,          \* "global": the static CALLBACK of events.rs; "context": msg_observer of context.rs
    e_slot,             \* the handler installed in the slot
    e_lock,             \* the mutex around the slot: "free", "native", "app"
    e_native,           \* the library's thread: "idle", "decoded", "running"
    e_cur,              \* the event being dispatched
    e_app,              \* the application's thread: "idle", "registering"
    e_delivered,        \* the events the library delivered, in order
    e_invocations,      \* the handler invocations, in the order they started
    e_returned,         \* sequence number of the last registration that returned
    e_seq,              \* sequence number of the last handler put into the slot
    e_status,           \* "running", "aborted", "deadlocked"
    \* ---- single calls: argument conversions, topic and hash text forms, registration ----
    u_fn,               \* the function called
    u_in,               \* its input
    u_pc,               \* "input" -> "done"
    u_out,              \* what it produced
    \* ---- threads at the flag's lock (node/mod.rs waku_new, stop_node) ----
    k_flag,             \* the value inside WAKU_NODE_INITIALIZED
    k_lock,             \* the thread holding the guard of the flag's mutex (0: free)
    k_pc,               \* per thread: position inside waku_new or stop_node
    k_seen,             \* per thread: the value of the flag it read
    k_handles,          \* live handles, which can be sent to any thread
    k_granted,          \* handles waku_new returned since the last stop cleared the flag
    k_result,           \* per thread: what its last call returned
    k_calls,            \* number of calls made
    \* ---- concurrent deliveries of events (node/events.rs callback, utils.rs trampoline) ----
    d_variant,          \* "global": the static CALLBACK; "context": msg_observer
    d_lock,             \* the thread holding the guard of CALLBACK (0: free)
    d_pc,               \* per delivering thread: "idle", "decoded", "running"
    d_cur,              \* per delivering thread: the response it dispatches
    d_count,            \* number of deliveries made
    d_status            \* "running", "aborted"

flagVars == <<node_initialized, handles, startedOk, last, calls, inCycles, cyclePos, cyclesDone>>
clsVars == <<cl_pc, cl_code, cl_cb, cl_handler, cl_outcome, cl_result, cl_runs>>

nodeVars == <<h_handles, h_nextPtr, h_destroyed, h_status, h_calls, h_prev, h_last>>

callVars == <<a_pc, a_result, a_permit, a_closure, a_code, a_final, a_mem, a_pending,
              a_crashed, a_from, a_issued, a_completed, a_delivered, a_access>>

argVars == <<g_fn, g_ok, g_pc, g_bufs, g_native, g_cb, g_log, g_calls>>

storeVars == <<s_script, s_pc, s_first, s_cursor, s_acc, s_requests, s_responses, s_result, s_uuid>>

evVars == <<e_variant, e_slot, e_lock, e_native, e_cur, e_app, e_delivered, e_invocations,
           e_returned, e_seq, e_status>>

unitVars == <<u_fn, u_in, u_pc, u_out>>

lockVars == <<k_flag, k_lock, k_pc, k_seen, k_handles, k_granted, k_result, k_calls>>

dispVars == <<d_variant, d_lock, d_pc, d_cur, d_count, d_status>>

vars == <<flagVars, clsVars, nodeVars, callVars, argVars, storeVars, evVars, unitVars,
          lockVars, dispVars>>

\* what the operations of one part leave alone
FlagFrame == UNCHANGED <<clsVars, nodeVars, callVars, argVars, storeVars, evVars, unitVars, lockVars, dispVars>>
ClsFrame == UNCHANGED <<flagVars, nodeVars, callVars, argVars, storeVars, evVars, unitVars, lockVars, dispVars>>
NodeFrame == UNCHANGED <<flagVars, clsVars, callVars, argVars, storeVars, evVars, unitVars, lockVars, dispVars>>
CallFrame == UNCHANGED <<flagVars, clsVars, nodeVars, argVars, storeVars, evVars, unitVars, lockVars, dispVars>>
ArgFrame == UNCHANGED <<flagVars, clsVars, nodeVars, callVars, storeVars, evVars, unitVars, lockVars, dispVars>>
StoreFrame == UNCHANGED <<flagVars, clsVars, nodeVars, callVars, argVars, evVars, unitVars, lockVars, dispVars>>
EvFrame == UNCHANGED <<flagVars, clsVars, nodeVars, callVars, argVars, storeVars, unitVars, lockVars, dispVars>>
UnitFrame == UNCHANGED <<flagVars, clsVars, nodeVars, callVars, argVars, storeVars, evVars, lockVars, dispVars>>
LockFrame == UNCHANGED <<flagVars, clsVars, nodeVars, callVars, argVars, storeVars, evVars,
                         unitVars, dispVars>>
DispFrame == UNCHANGED <<flagVars, clsVars, nodeVars, callVars, argVars, storeVars, evVars,
                         unitVars, lockVars>>

--------------------------------------------------------------------------
\* Bounds of the model
MaxCalls == 7
MaxLen == 2
MaxNodes == 2
MaxNodeCalls == 5
MaxInFlight == 2
MaxAddrs == 2
MaxArgCalls == 3
MaxPages == 3
MaxPageItems == 2
MaxEvents == 3
MaxRegs == 2
MaxTopicLen == 8
MaxThreads == 2
MaxLockCalls == 4
MaxDeliverers == 2

--------------------------------------------------------------------------
\* Results returned to the caller: Ok, or Err(msg)
Ok == [ok |-> TRUE, msg |-> "" ]
Err(m) == [ok |-> FALSE, msg |-> m]

States == {"Initialized", "Running"}

\* methods of impl WakuNodeHandle<Running> that take &self
RunningOps == {"connect_peer_with_address", "connect_peer_with_id",
               "relay_publish_message", "lightpush_publish",
               "relay_subscribe", "relay_unsubscribe",
               "filter_subscribe", "filter_unsubscribe", "store_query"}

\* methods of impl<State> WakuNodeHandle<State>
AnyStateOps == {"peer_id", "listen_addresses", "add_peer"}

\* the native function each management call invokes
NativeFn(op) ==
    CASE op = "waku_new"   -> "waku_new"
      [] op = "waku_start" -> "waku_start"
      [] op = "waku_stop"  -> "waku_start"
      [] OTHER             -> op

NoCall == [op |-> "none", handle |-> "none", live |-> 0, started |-> FALSE,
           result |-> Ok, native |-> <<>>]

Live == handles["Initialized"] + handles["Running"]

Take(s) == [handles EXCEPT ![s] = @ - 1]
Give(h, s) == [h EXCEPT ![s] = @ + 1]

\* ghost: the cycle waku_new -> start -> stop of tests/node.rs node_restart
NextPos(p) == CASE p = "waku_new" -> "start" [] p = "start" -> "stop" [] OTHER -> "waku_new"

Track(op, nativeOk) ==
    /\ inCycles' = (inCycles /\ op = cyclePos /\ nativeOk)
    /\ cyclePos' = IF inCycles /\ op = cyclePos /\ nativeOk THEN NextPos(cyclePos) ELSE cyclePos
    /\ cyclesDone' = IF inCycles /\ op = cyclePos /\ nativeOk /\ op = "stop"
                     THEN cyclesDone + 1 ELSE cyclesDone
    /\ calls' = calls + 1

--------------------------------------------------------------------------
\* faulty variant: waku_new that does not look at the flag
WakuNewMut(nativeOk) ==
    /\ calls < MaxCalls
    /\ node_initialized' = TRUE
    /\ handles' = IF nativeOk THEN Give(handles, "Initialized") ELSE handles
    /\ startedOk' = IF nativeOk THEN FALSE ELSE startedOk
    /\ last' = [op |-> "waku_new", handle |-> "none", live |-> Live, started |-> startedOk,
                result |-> IF nativeOk THEN Ok ELSE Err("native"),
                native |-> <<NativeFn("waku_new")>>]
    /\ Track("waku_new", nativeOk)

\* waku_new: lock the flag, refuse when it is set, set it, create the native node
waku_new(nativeOk) ==
    /\ calls < MaxCalls
    /\ IF node_initialized
       THEN /\ last' = [op |-> "waku_new", handle |-> "none", live |-> Live,
                        started |-> startedOk,
                        result |-> Err("Waku node is already initialized"),
                        native |-> <<>>]
            /\ UNCHANGED <<node_initialized, handles, startedOk>>
            /\ Track("waku_new", TRUE)
       ELSE /\ node_initialized' = TRUE
            /\ handles' = IF nativeOk THEN Give(handles, "Initialized") ELSE handles
            /\ startedOk' = IF nativeOk THEN FALSE ELSE startedOk
            /\ last' = [op |-> "waku_new", handle |-> "none", live |-> Live,
                        started |-> startedOk,
                        result |-> IF nativeOk THEN Ok ELSE Err("native"),
                        native |-> <<NativeFn("waku_new")>>]
            /\ Track("waku_new", nativeOk)

\* faulty variant: start that gives a Running handle whatever the native side answered
startMut(nativeOk) ==
    /\ calls < MaxCalls
    /\ handles["Initialized"] > 0
    /\ handles' = Give(Take("Initialized"), "Running")
    /\ startedOk' = nativeOk
    /\ last' = [op |-> "start", handle |-> "Initialized", live |-> Live, started |-> startedOk,
                result |-> IF nativeOk THEN Ok ELSE Err("native"),
                native |-> <<NativeFn("waku_start")>>]
    /\ UNCHANGED node_initialized
    /\ Track("start", nativeOk)

\* faulty variant: start that calls the native function again when it failed
startRetry(nativeOk) ==
    /\ calls < MaxCalls
    /\ handles["Initialized"] > 0
    /\ handles' = IF nativeOk THEN Give(Take("Initialized"), "Running") ELSE Take("Initialized")
    /\ startedOk' = nativeOk
    /\ last' = [op |-> "start", handle |-> "Initialized", live |-> Live, started |-> startedOk,
                result |-> IF nativeOk THEN Ok ELSE Err("native"),
                native |-> IF nativeOk THEN <<NativeFn("waku_start")>>
                           ELSE <<NativeFn("waku_start"), NativeFn("waku_start")>>]
    /\ UNCHANGED node_initialized
    /\ Track("start", nativeOk)

\* WakuNodeHandle<Initialized>::start(self): consumes the handle, gives a Running one on success
start(nativeOk) ==
    /\ calls < MaxCalls
    /\ handles["Initialized"] > 0
    /\ handles' = IF nativeOk THEN Give(Take("Initialized"), "Running") ELSE Take("Initialized")
    /\ startedOk' = nativeOk
    /\ last' = [op |-> "start", handle |-> "Initialized", live |-> Live, started |-> startedOk,
                result |-> IF nativeOk THEN Ok ELSE Err("native"),
                native |-> <<NativeFn("waku_start")>>]
    /\ UNCHANGED node_initialized
    /\ Track("start", nativeOk)

\* faulty variant: stop_node that leaves the flag set
stop_nodeMut(s, nativeOk) ==
    /\ handles' = Take(s)
    /\ startedOk' = FALSE
    /\ last' = [op |-> "stop", handle |-> s, live |-> Live, started |-> startedOk,
                result |-> IF nativeOk THEN Ok ELSE Err("native"),
                native |-> <<NativeFn("waku_stop")>>]
    /\ UNCHANGED node_initialized
    /\ Track("stop", nativeOk)

\* stop_node: lock the flag, clear it, stop the native node
stop_node(s, nativeOk) ==
    /\ node_initialized' = FALSE
    /\ handles' = Take(s)
    /\ startedOk' = FALSE
    /\ last' = [op |-> "stop", handle |-> s, live |-> Live, started |-> startedOk,
                result |-> IF nativeOk THEN Ok ELSE Err("native"),
                native |-> <<NativeFn("waku_stop")>>]
    /\ Track("stop", nativeOk)

\* WakuNodeHandle<Initialized>::stop(self) and WakuNodeHandle<Running>::stop(self)
stop(s, nativeOk) ==
    /\ calls < MaxCalls
    /\ handles[s] > 0
    /\ stop_node(s, nativeOk)

\* a handle going out of scope: the struct has no Drop implementation
DropHandle(s) ==
    /\ calls < MaxCalls
    /\ handles[s] > 0
    /\ handles' = Take(s)
    /\ last' = [op |-> "drop", handle |-> s, live |-> Live, started |-> startedOk,
                result |-> Ok, native |-> <<>>]
    /\ UNCHANGED <<node_initialized, startedOk>>
    /\ Track("drop", TRUE)

\* the &self methods of impl WakuNodeHandle<Running>
RunningOp(op, nativeOk) ==
    /\ calls < MaxCalls
    /\ handles["Running"] > 0
    /\ last' = [op |-> op, handle |-> "Running", live |-> Live, started |-> startedOk,
                result |-> IF nativeOk THEN Ok ELSE Err("native"),
                native |-> <<NativeFn(op)>>]
    /\ UNCHANGED <<node_initialized, handles, startedOk>>
    /\ Track(op, nativeOk)

\* the &self methods of impl<State> WakuNodeHandle<State>
AnyStateOp(op, s, nativeOk) ==
    /\ calls < MaxCalls
    /\ handles[s] > 0
    /\ last' = [op |-> op, handle |-> s, live |-> Live, started |-> startedOk,
                result |-> IF nativeOk THEN Ok ELSE Err("native"),
                native |-> <<NativeFn(op)>>]
    /\ UNCHANGED <<node_initialized, handles, startedOk>>
    /\ Track(op, nativeOk)

FlagInit ==
    /\ node_initialized = FALSE
    /\ handles = [s \in States |-> 0]
    /\ startedOk = FALSE
    /\ last = NoCall
    /\ calls = 0
    /\ inCycles = TRUE
    /\ cyclePos = "waku_new"
    /\ cyclesDone = 0

FlagNext ==
    \/ \E ok \in BOOLEAN : waku_new(ok) /\ FlagFrame
    \/ \E ok \in BOOLEAN : start(ok) /\ FlagFrame
    \/ \E s \in States, ok \in BOOLEAN : stop(s, ok) /\ FlagFrame
    \/ \E s \in States : DropHandle(s) /\ FlagFrame
    \/ \E op \in RunningOps, ok \in BOOLEAN : RunningOp(op, ok) /\ FlagFrame
    \/ \E op \in AnyStateOps, s \in States, ok \in BOOLEAN : AnyStateOp(op, s, ok) /\ FlagFrame


--------------------------------------------------------------------------
\* Properties of the flag-based handle

C2_RestartCycles == (inCycles /\ calls > 0) => last.result.ok

\* C2 witness: two full cycles were completed and a third waku_new succeeded
C2_Witness ==
    /\ inCycles /\ cyclesDone >= 2
    /\ last.op = "waku_new" /\ last.result.ok

\* C4 (as claimed): a successful stop on a Running handle leaves an
\* Initialized handle for the same node, ready to be started again.
C4_StopYieldsInitialized ==
    (last.op = "stop" /\ last.handle = "Running" /\ last.result.ok)
        => handles["Initialized"] > 0

\* C5: a Running-only operation is issued only on a node for which start()
\* returned Ok and on which stop() has not been called since.
C5_GatedOnlyWhenStarted == (last.op \in RunningOps) => last.started

\* C5 witness: a store query was issued on a started node
C5_Witness == last.op = "store_query" /\ last.started /\ last.handle = "Running"

\* C6 (as claimed): listen_addresses is only ever invoked on a Running handle.
C6_ListenOnlyRunning == (last.op = "listen_addresses") => last.handle = "Running"

\* C30: a call invokes its native function once and never again: a call
\* that reaches the native side makes exactly one native invocation, also
\* when the native side reports failure, and the failure is what the caller
\* gets; the only call that makes none is a waku_new refused by the flag
C30_NativeOncePerCall ==
    (last.op \notin {"none", "drop"})
    => /\ Len(last.native) <= 1
       /\ Len(last.native) = 0 <=>
             (last.op = "waku_new" /\ last.result = Err("Waku node is already initialized"))
       /\ Len(last.native) = 1 => last.result \in {Ok, Err("native")}

\* C30 witness: the native side failed a connect call, which made one
\* native invocation and returned the error
C30_Witness ==
    /\ last.op = "connect_peer_with_address"
    /\ last.result = Err("native")
    /\ last.native = <<"connect_peer_with_address">>

\* C33: a stop invokes the native stop function exactly once and no other
\* native lifecycle function
C33_StopInvokesNativeStop ==
    (last.op = "stop") => last.native = <<"waku_stop">>

\* C35: the flag is set only while a live handle exists: a waku_new whose
\* native creation failed and a start that failed leave it cleared
C35_FlagOnlyWhileLive ==
    node_initialized => Live > 0

\* C36: while the flag is cleared no node created by waku_new is alive: no
\* handle is live, and a stop whose native call failed has left the flag set
C36_ClearedOnlyWhenStopped ==
    /\ ~node_initialized => Live = 0
    /\ (last.op = "stop" /\ ~last.result.ok) => node_initialized

--------------------------------------------------------------------------
\* Threads at the flag: waku_new and stop_node of node/mod.rs called from
\* several threads (the handle is Send).  Both take the guard of
\* WAKU_NODE_INITIALIZED in their first statement and keep it in a local
\* until they return, the native call included.

Threads == 1..MaxThreads

\* faulty variant: a lock that is granted while another thread holds it
CanLockMut(lock) == TRUE

\* WAKU_NODE_INITIALIZED.lock(): granted when no guard is alive
CanLock(lock) == lock = 0

\* threads inside a native call
InNative == {t \in Threads : k_pc[t] \in {"new_native", "stop_native"}}

\* a thread calls waku_new(config) and arrives at lock()
NewCall(t) ==
    /\ k_calls < MaxLockCalls
    /\ k_pc[t] = "idle"
    /\ k_pc' = [k_pc EXCEPT ![t] = "new_wait"]
    /\ k_result' = [k_result EXCEPT ![t] = "none"]
    /\ k_calls' = k_calls + 1
    /\ UNCHANGED <<k_flag, k_lock, k_seen, k_handles, k_granted>>

\* let mut node_initialized = WAKU_NODE_INITIALIZED.lock().expect(..)
NewLock(t) ==
    /\ k_pc[t] = "new_wait"
    /\ CanLock(k_lock)
    /\ k_lock' = t
    /\ k_pc' = [k_pc EXCEPT ![t] = "new_locked"]
    /\ UNCHANGED <<k_flag, k_seen, k_handles, k_granted, k_result, k_calls>>

\* if *node_initialized: the flag is read
NewTest(t) ==
    /\ k_pc[t] = "new_locked"
    /\ k_seen' = [k_seen EXCEPT ![t] = k_flag]
    /\ k_pc' = [k_pc EXCEPT ![t] = "new_tested"]
    /\ UNCHANGED <<k_flag, k_lock, k_handles, k_granted, k_result, k_calls>>

\* return Err("Waku node is already initialized"): the guard is dropped
NewRefuse(t) ==
    /\ k_pc[t] = "new_tested" /\ k_seen[t]
    /\ k_lock' = IF k_lock = t THEN 0 ELSE k_lock
    /\ k_pc' = [k_pc EXCEPT ![t] = "idle"]
    /\ k_result' = [k_result EXCEPT ![t] = "AlreadyInitialized"]
    /\ UNCHANGED <<k_flag, k_seen, k_handles, k_granted, k_calls>>

\* *node_initialized = true; management::waku_new(config) is entered
NewCreate(t) ==
    /\ k_pc[t] = "new_tested" /\ ~k_seen[t]
    /\ k_flag' = TRUE
    /\ k_pc' = [k_pc EXCEPT ![t] = "new_native"]
    /\ UNCHANGED <<k_lock, k_seen, k_handles, k_granted, k_result, k_calls>>

\* management::waku_new returns; .map(|_| WakuNodeHandle(..)); the guard is
\* dropped
NewReturn(t, nativeOk) ==
    /\ k_pc[t] = "new_native"
    /\ k_handles' = IF nativeOk THEN k_handles + 1 ELSE k_handles
    /\ k_granted' = IF nativeOk THEN k_granted + 1 ELSE k_granted
    /\ k_result' = [k_result EXCEPT ![t] = IF nativeOk THEN "Ok" ELSE "Err"]
    /\ k_lock' = IF k_lock = t THEN 0 ELSE k_lock
    /\ k_pc' = [k_pc EXCEPT ![t] = "idle"]
    /\ UNCHANGED <<k_flag, k_seen, k_calls>>

\* a thread that owns a handle calls stop(self) and arrives at lock()
StopCall(t) ==
    /\ k_calls < MaxLockCalls
    /\ k_pc[t] = "idle"
    /\ k_handles > 0
    /\ k_handles' = k_handles - 1
    /\ k_pc' = [k_pc EXCEPT ![t] = "stop_wait"]
    /\ k_result' = [k_result EXCEPT ![t] = "none"]
    /\ k_calls' = k_calls + 1
    /\ UNCHANGED <<k_flag, k_lock, k_seen, k_granted>>

\* stop_node: let mut node_initialized = WAKU_NODE_INITIALIZED.lock().expect(..)
StopLock(t) ==
    /\ k_pc[t] = "stop_wait"
    /\ CanLock(k_lock)
    /\ k_lock' = t
    /\ k_pc' = [k_pc EXCEPT ![t] = "stop_locked"]
    /\ UNCHANGED <<k_flag, k_seen, k_handles, k_granted, k_result, k_calls>>

\* *node_initialized = false; management::waku_stop() is entered
StopClear(t) ==
    /\ k_pc[t] = "stop_locked"
    /\ k_flag' = FALSE
    /\ k_granted' = 0
    /\ k_pc' = [k_pc EXCEPT ![t] = "stop_native"]
    /\ UNCHANGED <<k_lock, k_seen, k_handles, k_result, k_calls>>

\* management::waku_stop returns; the guard is dropped
StopReturn(t, nativeOk) ==
    /\ k_pc[t] = "stop_native"
    /\ k_result' = [k_result EXCEPT ![t] = IF nativeOk THEN "Ok" ELSE "Err"]
    /\ k_lock' = IF k_lock = t THEN 0 ELSE k_lock
    /\ k_pc' = [k_pc EXCEPT ![t] = "idle"]
    /\ UNCHANGED <<k_flag, k_seen, k_handles, k_granted, k_calls>>

LockInit ==
    /\ k_flag = FALSE
    /\ k_lock = 0
    /\ k_pc = [t \in Threads |-> "idle"]
    /\ k_seen = [t \in Threads |-> FALSE]
    /\ k_handles = 0
    /\ k_granted = 0
    /\ k_result = [t \in Threads |-> "none"]
    /\ k_calls = 0

LockIdle == LockInit

LockNext ==
    \/ \E t \in Threads : NewCall(t) /\ LockFrame
    \/ \E t \in Threads : NewLock(t) /\ LockFrame
    \/ \E t \in Threads : NewTest(t) /\ LockFrame
    \/ \E t \in Threads : NewRefuse(t) /\ LockFrame
    \/ \E t \in Threads : NewCreate(t) /\ LockFrame
    \/ \E t \in Threads, ok \in BOOLEAN : NewReturn(t, ok) /\ LockFrame
    \/ \E t \in Threads : StopCall(t) /\ LockFrame
    \/ \E t \in Threads : StopLock(t) /\ LockFrame
    \/ \E t \in Threads : StopClear(t) /\ LockFrame
    \/ \E t \in Threads, ok \in BOOLEAN : StopReturn(t, ok) /\ LockFrame

\* C37: for every interleaving of waku_new and stop calls made by different
\* threads, at most one waku_new returns a handle between two stops, and no
\* native creation runs while another native creation or a native stop is
\* in progress: the thread inside the native call holds the flag's lock
C37_SerializedByLock ==
    /\ k_granted <= 1
    /\ k_handles <= 1
    /\ Cardinality(InNative) <= 1
    /\ \A t \in InNative : k_lock = t

\* C37 witness: while one thread is inside the native stop, another thread
\* has called waku_new and waits for the lock; the first creation had
\* returned a handle
C37_Witness ==
    \E t, u \in Threads :
        /\ t # u
        /\ k_pc[t] = "stop_native" /\ k_lock = t
        /\ k_pc[u] = "new_wait"
        /\ k_result[u] = "none"

--------------------------------------------------------------------------
\* Result classifier

Chars == {"a", "b"}

RECURSIVE StrOfLen(_)
StrOfLen(n) == IF n = 0 THEN {<<>>}
               ELSE {Append(s, c) : s \in StrOfLen(n - 1), c \in Chars}

Texts == UNION {StrOfLen(n) : n \in 0..MaxLen}

RetCodes == {"RET_OK", "RET_ERR", "RET_MISSING_CALLBACK", "OTHER"}

\* enum LibwakuResponse
Success(some, text) == [tag |-> "Success", some |-> some, text |-> text]
Failure(text) == [tag |-> "Failure", some |-> FALSE, text |-> text]
MissingCallback == [tag |-> "MissingCallback", some |-> FALSE, text |-> <<>>]
Undefined == [tag |-> "Undefined", some |-> FALSE, text |-> <<>>]

\* Result<T>, and a panic of the calling thread
ResOk(v) == [kind |-> "Ok", text |-> v]
ResErr(m) == [kind |-> "Err", text |-> m]
ResPanic == [kind |-> "Panic", text |-> <<>>]

\* the literal of format!("waku error: {}", response)
WakuErrorPrefix == <<"w", "a", "k", "u", " ", "e", "r", "r", "o", "r", ":", " ">>

\* faulty variant: a conversion that drops the message of an error
TryFromMut(ret_code, response) ==
    CASE ret_code = "RET_OK" -> [ok |-> TRUE, val |-> Success(response # <<>>, response)]
      [] ret_code = "RET_ERR" -> [ok |-> TRUE, val |-> Failure(WakuErrorPrefix)]
      [] ret_code = "RET_MISSING_CALLBACK" -> [ok |-> TRUE, val |-> MissingCallback]
      [] OTHER -> [ok |-> FALSE, val |-> Undefined]

\* impl TryFrom<(u32, &str)> for LibwakuResponse
TryFrom(ret_code, response) ==
    CASE ret_code = "RET_OK" -> [ok |-> TRUE, val |-> Success(response # <<>>, response)]
      [] ret_code = "RET_ERR" -> [ok |-> TRUE, val |-> Failure(WakuErrorPrefix \o response)]
      [] ret_code = "RET_MISSING_CALLBACK" -> [ok |-> TRUE, val |-> MissingCallback]
      [] OTHER -> [ok |-> FALSE, val |-> Undefined]

\* the bytes the native side hands to the callback
Datas == {[null |-> TRUE, utf8 |-> TRUE, text |-> <<>>]}
         \cup {[null |-> FALSE, utf8 |-> TRUE, text |-> t] : t \in Texts}
         \cup {[null |-> FALSE, utf8 |-> FALSE, text |-> <<>>]}

\* faulty variant: an empty payload is kept as a present value
trampolineMut(ret_code, data) ==
    LET response == IF data.null THEN <<>> ELSE data.text
    IN  IF ~data.null /\ ~data.utf8 THEN [panic |-> TRUE, val |-> Undefined]
        ELSE CASE ret_code = "RET_OK" -> [panic |-> FALSE, val |-> Success(TRUE, response)]
               [] ret_code = "RET_ERR" ->
                    [panic |-> FALSE, val |-> Failure(WakuErrorPrefix \o response)]
               [] ret_code = "RET_MISSING_CALLBACK" -> [panic |-> FALSE, val |-> MissingCallback]
               [] OTHER -> [panic |-> TRUE, val |-> Undefined]

\* trampoline: decode the bytes, classify, hand the outcome to the closure;
\* "panic" when the bytes are not UTF-8 or the code is unknown
trampoline(ret_code, data) ==
    LET response == IF data.null THEN <<>> ELSE data.text
        r == TryFrom(ret_code, response)
    IN  IF ~data.null /\ ~data.utf8 THEN [panic |-> TRUE, val |-> Undefined]
        ELSE IF ~r.ok THEN [panic |-> TRUE, val |-> Undefined]
        ELSE [panic |-> FALSE, val |-> r.val]

\* faulty variant: an outcome that was never written is Ok whatever the code
handle_no_responseLax(code, result) ==
    CASE result.tag = "Success" -> ResOk(<<>>)
      [] result.tag = "Failure" -> ResErr(result.text)
      [] result.tag = "MissingCallback" -> ResPanic
      [] OTHER -> ResOk(<<>>)

\* faulty variant: handle_no_response without the early return
handle_no_responseMut(code, result) ==
    CASE result.tag = "Success" -> ResOk(<<>>)
      [] result.tag = "Failure" -> ResErr(result.text)
      [] result.tag = "MissingCallback" -> ResPanic
      [] OTHER -> ResPanic

\* handle_no_response(code, result)
handle_no_response(code, result) ==
    IF result = Undefined /\ code = "RET_OK" THEN ResOk(<<>>)
    ELSE CASE result.tag = "Success" -> ResOk(<<>>)
           [] result.tag = "Failure" -> ResErr(result.text)
           [] result.tag = "MissingCallback" -> ResPanic
           [] OTHER -> ResPanic

\* impl WakuDecode for String
decode(input) == ResOk(input)

\* handle_response::<String>(code, result)
handle_response(code, result) ==
    CASE result.tag = "Success" -> decode(IF result.some THEN result.text ELSE <<>>)
      [] result.tag = "Failure" -> ResErr(result.text)
      [] result.tag = "MissingCallback" -> ResPanic
      [] OTHER -> ResPanic

\* the texts the Multiaddr parser accepts: in the two-letter alphabet the
\* empty text and the texts that begin with "a" stand for them
MultiaddrTexts == {t \in Texts : t = <<>> \/ t[1] = "a"}

CouldNotParse == <<"could not parse Multiaddr: ">>

\* impl WakuDecode for Vec<Multiaddr>: the parse error is mapped to an Err
decode_multiaddrs(input) ==
    IF input \in MultiaddrTexts THEN ResOk(input) ELSE ResErr(CouldNotParse)

\* handle_response::<Vec<Multiaddr>>(code, result)
handle_response_multiaddrs(code, result) ==
    CASE result.tag = "Success" -> decode_multiaddrs(IF result.some THEN result.text ELSE <<>>)
      [] result.tag = "Failure" -> ResErr(result.text)
      [] result.tag = "MissingCallback" -> ResPanic
      [] OTHER -> ResPanic

Handlers == {"handle_no_response", "handle_response", "handle_response_multiaddrs"}

Classify(h, code, result) ==
    IF h = "handle_no_response" THEN handle_no_response(code, result)
    ELSE IF h = "handle_response" THEN handle_response(code, result)
    ELSE handle_response_multiaddrs(code, result)

Callbacks == {[fired |-> FALSE, ret_code |-> "RET_OK", data |-> [null |-> TRUE, utf8 |-> TRUE, text |-> <<>>]]}
             \cup {[fired |-> TRUE, ret_code |-> c, data |-> d] : c \in RetCodes, d \in Datas}

ClsInit ==
    /\ cl_pc = "input"
    /\ cl_code \in RetCodes
    /\ cl_cb \in Callbacks
    /\ cl_handler \in Handlers
    /\ cl_outcome = Undefined
    /\ cl_result = ResOk(<<>>)
    /\ cl_runs = 0

\* the native side invokes the callback of the call
ClsCallback ==
    /\ cl_pc = "input" /\ cl_cb.fired
    /\ LET t == trampoline(cl_cb.ret_code, cl_cb.data)
       IN  IF t.panic
           THEN cl_pc' = "panicked" /\ cl_result' = ResPanic /\ UNCHANGED <<cl_outcome, cl_runs>>
           ELSE /\ cl_pc' = "called" /\ cl_outcome' = t.val /\ UNCHANGED cl_result
                /\ cl_runs' = cl_runs + 1
    /\ UNCHANGED <<cl_code, cl_cb, cl_handler>>

\* the native function returns without having invoked the callback
ClsNoCallback ==
    /\ cl_pc = "input" /\ ~cl_cb.fired
    /\ cl_pc' = "called"
    /\ UNCHANGED <<cl_code, cl_cb, cl_handler, cl_outcome, cl_result, cl_runs>>

\* $resp_hndlr(code, result)
ClsClassify ==
    /\ cl_pc = "called"
    /\ cl_result' = Classify(cl_handler, cl_code, cl_outcome)
    /\ cl_pc' = "done"
    /\ UNCHANGED <<cl_code, cl_cb, cl_handler, cl_outcome, cl_runs>>

ClsNext ==
    \/ ClsCallback /\ ClsFrame
    \/ ClsNoCallback /\ ClsFrame
    \/ ClsClassify /\ ClsFrame

ClsIdle ==
    /\ cl_pc = "idle"
    /\ cl_code = "RET_OK"
    /\ cl_cb = [fired |-> FALSE, ret_code |-> "RET_OK", data |-> [null |-> TRUE, utf8 |-> TRUE, text |-> <<>>]]
    /\ cl_handler = "handle_no_response"
    /\ cl_outcome = Undefined
    /\ cl_result = ResOk(<<>>)
    /\ cl_runs = 0

\* C8: a no-response call whose native function returned the ok status and
\* whose callback never ran (the outcome is still Undefined) is classified
\* Ok(()), not as the fatal undefined state.
C8_OkWithoutCallback ==
    (cl_pc = "done" /\ cl_handler = "handle_no_response" /\ ~cl_cb.fired
        /\ cl_code = "RET_OK")
    => (cl_outcome = Undefined /\ cl_result = ResOk(<<>>))

\* C8 witness: such a call was classified
C8_Witness ==
    /\ cl_pc = "done" /\ cl_handler = "handle_no_response" /\ ~cl_cb.fired
    /\ cl_code = "RET_OK" /\ cl_outcome = Undefined

C26_TrampolineOutcome ==
    (cl_cb.fired /\ cl_pc # "input")
    => LET code == cl_cb.ret_code
           p == IF cl_cb.data.null THEN <<>> ELSE cl_cb.data.text
       IN  IF ~cl_cb.data.null /\ ~cl_cb.data.utf8 THEN cl_pc = "panicked" /\ cl_runs = 0
           ELSE /\ cl_runs = IF cl_pc = "panicked" THEN 0 ELSE 1
                /\ (code = "RET_OK" /\ p = <<>>) =>
                       (cl_outcome.tag = "Success" /\ ~cl_outcome.some)
                /\ (code = "RET_OK" /\ p # <<>>) =>
                       (cl_outcome.tag = "Success" /\ cl_outcome.some /\ cl_outcome.text = p)
                /\ code = "RET_ERR" => cl_outcome.tag = "Failure"
                /\ code = "RET_MISSING_CALLBACK" => cl_outcome = MissingCallback
                /\ code = "OTHER" <=> cl_pc = "panicked"

\* C26 witness: an ok status with an empty, non-null payload was handed to
\* the closure as Success(None)
C26_Witness ==
    /\ cl_pc = "called" /\ cl_cb.fired /\ cl_cb.ret_code = "RET_OK"
    /\ ~cl_cb.data.null /\ cl_cb.data.utf8 /\ cl_cb.data.text = <<>>
    /\ cl_outcome.tag = "Success" /\ ~cl_outcome.some
    /\ cl_runs = 1

\* C27: handle_no_response gives a result for every status code and
\* outcome: Success is Ok(()) with the payload ignored, Failure(msg) is
\* Err(msg), MissingCallback is fatal, Undefined is Ok(()) for the ok status
\* and fatal for every other status
C27_NoResponseTotal ==
    (cl_pc = "done" /\ cl_handler = "handle_no_response")
    => /\ cl_outcome.tag = "Success" => cl_result = ResOk(<<>>)
       /\ cl_outcome.tag = "Failure" => cl_result = ResErr(cl_outcome.text)
       /\ cl_outcome.tag = "MissingCallback" => cl_result = ResPanic
       /\ (cl_outcome.tag = "Undefined" /\ cl_code = "RET_OK") => cl_result = ResOk(<<>>)
       /\ (cl_outcome.tag = "Undefined" /\ cl_code # "RET_OK") => cl_result = ResPanic
       /\ cl_outcome.tag \in {"Success", "Failure", "MissingCallback", "Undefined"}

\* C27 witness: an outcome that was never written, with the error status,
\* was classified as fatal
C27_Witness ==
    /\ cl_pc = "done" /\ cl_handler = "handle_no_response"
    /\ cl_outcome = Undefined /\ cl_code = "RET_ERR"
    /\ cl_result = ResPanic

\* C28: the value classifier decodes the payload of a Success outcome, and
\* a payload that does not decode is fatal, not an Err; Failure(msg) is
\* Err(msg); MissingCallback and Undefined are fatal whatever the status
C28_DecodeFailureFatal ==
    (cl_pc = "done" /\ cl_handler # "handle_no_response")
    => /\ cl_outcome.tag = "Failure" => cl_result = ResErr(cl_outcome.text)
       /\ cl_outcome.tag \in {"MissingCallback", "Undefined"} => cl_result = ResPanic
       /\ cl_outcome.tag = "Success" =>
             LET payload == IF cl_outcome.some THEN cl_outcome.text ELSE <<>>
             IN  IF cl_handler = "handle_response_multiaddrs" /\ payload \notin MultiaddrTexts
                 THEN cl_result = ResPanic
                 ELSE cl_result = ResOk(payload)


--------------------------------------------------------------------------
\* Context-based lifecycle: node/management.rs drives one native call per
\* operation through a one-shot callback and a Notify; the handle owns the
\* WakuNodeContext.  How the callback's timing and the closure's lifetime play
\* out is the subject of the call adapter further down; here a call either
\* receives its callback, or waits forever.

ResHang == [kind |-> "Hang", text |-> <<>>]

\* what the native side may do with the callback of one call
NodeCallbacks ==
    {[fired |-> FALSE, ret_code |-> "RET_OK", data |-> [null |-> TRUE, utf8 |-> TRUE, text |-> <<>>]],
     [fired |-> TRUE, ret_code |-> "RET_OK", data |-> [null |-> TRUE, utf8 |-> TRUE, text |-> <<>>]],
     [fired |-> TRUE, ret_code |-> "RET_OK", data |-> [null |-> FALSE, utf8 |-> TRUE, text |-> <<"a">>]],
     [fired |-> TRUE, ret_code |-> "RET_OK", data |-> [null |-> FALSE, utf8 |-> FALSE, text |-> <<>>]],
     [fired |-> TRUE, ret_code |-> "RET_ERR", data |-> [null |-> FALSE, utf8 |-> TRUE, text |-> <<"b">>]],
     [fired |-> TRUE, ret_code |-> "RET_MISSING_CALLBACK", data |-> [null |-> TRUE, utf8 |-> TRUE, text |-> <<>>]],
     [fired |-> TRUE, ret_code |-> "OTHER", data |-> [null |-> TRUE, utf8 |-> TRUE, text |-> <<>>]]}

\* the native side completed the call with a success outcome
NativeSuccess(cb) == cb.fired /\ cb.ret_code = "RET_OK" /\ (cb.data.null \/ cb.data.utf8)

\* the body shared by the management calls: result = Undefined, invoke the
\* native function, notified().await, classify
AwaitAndClassify(h, code, cb) ==
    IF ~cb.fired THEN ResHang
    ELSE LET t == trampoline(cb.ret_code, cb.data)
         IN  IF t.panic THEN ResPanic ELSE Classify(h, code, t.val)

\* Option<WakuNodeConfig>
Configs == {"None", "Some"}

\* config.unwrap_or_default(), serialized for the native side
ConfigJson(cfg) == IF cfg = "None" THEN "default" ELSE "given"

\* faulty variant: waku_new that gives a context whatever the outcome says
mgmt_waku_newMut(code, cb) ==
    [result |-> IF ~cb.fired THEN ResHang ELSE ResOk(<<>>),
     native |-> <<"waku_new", "waku_set_event_callback">>]

\* management::waku_new: the match on the outcome after notified().await
mgmt_waku_new(code, cb) ==
    LET r == IF ~cb.fired THEN ResHang
             ELSE LET t == trampoline(cb.ret_code, cb.data)
                  IN  IF t.panic THEN ResPanic
                      ELSE IF t.val.tag = "MissingCallback" THEN ResPanic
                      ELSE IF t.val.tag = "Failure" THEN ResErr(t.val.text)
                      ELSE ResOk(<<>>)
    IN  [result |-> r,
         native |-> IF r.kind = "Ok" THEN <<"waku_new", "waku_set_event_callback">>
                    ELSE <<"waku_new">>]

\* management::waku_start
mgmt_waku_start(code, cb) ==
    [result |-> AwaitAndClassify("handle_no_response", code, cb), native |-> <<"waku_start">>]

\* management::waku_stop
mgmt_waku_stop(code, cb) ==
    [result |-> AwaitAndClassify("handle_no_response", code, cb), native |-> <<"waku_stop">>]

\* faulty variant: destroy that stops the node instead
mgmt_waku_destroyMut(code, cb) ==
    [result |-> AwaitAndClassify("handle_no_response", code, cb), native |-> <<"waku_stop">>]

\* management::waku_destroy
mgmt_waku_destroy(code, cb) ==
    [result |-> AwaitAndClassify("handle_no_response", code, cb), native |-> <<"waku_destroy">>]

\* management::waku_version
mgmt_waku_version(code, cb) ==
    [result |-> AwaitAndClassify("handle_response", code, cb), native |-> <<"waku_version">>]

\* management::waku_listen_addresses
mgmt_waku_listen_addresses(code, cb) ==
    [result |-> AwaitAndClassify("handle_response", code, cb), native |-> <<"waku_listen_addresses">>]

\* faulty variant: reset_ptr taking &mut self, the handle keeps its context
reset_ptrMut(hs, h) == hs

\* WakuNodeContext::reset_ptr(mut self): takes the context by value
reset_ptr(hs, h) == hs \ {h}

NodePtrs == 1..MaxNodes

NoNodeCall == [op |-> "none", arg |-> "", ptr |-> 0, state |-> "none", afterDestroy |-> FALSE,
               cb |-> [fired |-> FALSE, ret_code |-> "RET_OK",
                       data |-> [null |-> TRUE, utf8 |-> TRUE, text |-> <<>>]],
               result |-> ResOk(<<>>), native |-> <<>>]

\* bookkeeping common to every call: the record of the call, and the process
\* stops making calls when the call hangs or panics
Returned(op, arg, h, cb, m) ==
    /\ h_last' = [op |-> op, arg |-> arg, ptr |-> h.ptr, state |-> h.state,
                  afterDestroy |-> h.ptr \in h_destroyed,
                  cb |-> cb, result |-> m.result, native |-> m.native]
    /\ h_prev' = h_last
    /\ h_calls' = h_calls + 1
    /\ h_status' = CASE m.result.kind = "Hang" -> "hung"
                     [] m.result.kind = "Panic" -> "panicked"
                     [] OTHER -> "running"

CanCall == h_status = "running" /\ h_calls < MaxNodeCalls

\* waku_new(config) -> Handle<Initialized>
H_waku_new(cfg, code, cb) ==
    /\ CanCall
    /\ h_nextPtr <= MaxNodes
    /\ LET m == mgmt_waku_new(code, cb)
           h == [ptr |-> h_nextPtr, state |-> "Initialized"]
       IN  /\ h_handles' = IF m.result.kind = "Ok" THEN h_handles \cup {h} ELSE h_handles
           /\ Returned("waku_new", ConfigJson(cfg), [ptr |-> h_nextPtr, state |-> "none"], cb, m)
    /\ h_nextPtr' = h_nextPtr + 1
    /\ UNCHANGED h_destroyed

\* Handle<Initialized>.start() -> Handle<Running>
H_start(h, code, cb) ==
    /\ CanCall
    /\ h \in h_handles /\ h.state = "Initialized"
    /\ LET m == mgmt_waku_start(code, cb)
       IN  /\ h_handles' = IF m.result.kind = "Ok"
                           THEN (h_handles \ {h}) \cup {[h EXCEPT !.state = "Running"]}
                           ELSE h_handles \ {h}
           /\ Returned("start", "", h, cb, m)
    /\ UNCHANGED <<h_nextPtr, h_destroyed>>

\* Handle<Running>.stop() -> Handle<Initialized>
H_stop(h, code, cb) ==
    /\ CanCall
    /\ h \in h_handles /\ h.state = "Running"
    /\ LET m == mgmt_waku_stop(code, cb)
       IN  /\ h_handles' = IF m.result.kind = "Ok"
                           THEN (h_handles \ {h}) \cup {[h EXCEPT !.state = "Initialized"]}
                           ELSE h_handles \ {h}
           /\ Returned("stop", "", h, cb, m)
    /\ UNCHANGED <<h_nextPtr, h_destroyed>>

\* Handle<_>.waku_destroy(): management::waku_destroy(&ctx), then the context
\* is given up through reset_ptr
H_waku_destroy(h, code, cb) ==
    /\ CanCall
    /\ h \in h_handles
    /\ LET m == mgmt_waku_destroy(code, cb)
       IN  /\ h_handles' = reset_ptr(h_handles, h)
           /\ Returned("waku_destroy", "", h, cb, m)
    /\ h_destroyed' = h_destroyed \cup {h.ptr}
    /\ UNCHANGED h_nextPtr

\* Handle<_>.version()
H_version(h, code, cb) ==
    /\ CanCall
    /\ h \in h_handles
    /\ Returned("version", "", h, cb, mgmt_waku_version(code, cb))
    /\ UNCHANGED <<h_handles, h_nextPtr, h_destroyed>>

\* Handle<Running>.listen_addresses()
H_listen_addresses(h, code, cb) ==
    /\ CanCall
    /\ h \in h_handles /\ h.state = "Running"
    /\ Returned("listen_addresses", "", h, cb, mgmt_waku_listen_addresses(code, cb))
    /\ UNCHANGED <<h_handles, h_nextPtr, h_destroyed>>

NodeInit ==
    /\ h_handles = {}
    /\ h_nextPtr = 1
    /\ h_destroyed = {}
    /\ h_status = "running"
    /\ h_calls = 0
    /\ h_prev = NoNodeCall
    /\ h_last = NoNodeCall

AllHandles == {[ptr |-> p, state |-> s] : p \in NodePtrs, s \in States}

NativeCodes == {"RET_OK", "RET_ERR"}

NodeNext ==
    \/ \E cfg \in Configs, code \in NativeCodes, cb \in NodeCallbacks :
           H_waku_new(cfg, code, cb) /\ NodeFrame
    \/ \E h \in AllHandles, code \in NativeCodes, cb \in NodeCallbacks :
           H_start(h, code, cb) /\ NodeFrame
    \/ \E h \in AllHandles, code \in NativeCodes, cb \in NodeCallbacks :
           H_stop(h, code, cb) /\ NodeFrame
    \/ \E h \in AllHandles, code \in NativeCodes, cb \in NodeCallbacks :
           H_waku_destroy(h, code, cb) /\ NodeFrame
    \/ \E h \in AllHandles, code \in NativeCodes, cb \in NodeCallbacks :
           H_version(h, code, cb) /\ NodeFrame
    \/ \E h \in AllHandles, code \in NativeCodes, cb \in NodeCallbacks :
           H_listen_addresses(h, code, cb) /\ NodeFrame

\* operations of the native library that only make sense on a started node
RunningOnlyNative == {"waku_stop", "waku_listen_addresses", "waku_connect",
                      "waku_relay_publish", "waku_relay_subscribe",
                      "waku_relay_unsubscribe", "waku_store_query"}

Range(f) == {f[i] : i \in DOMAIN f}

NodeIdle == NodeInit

--------------------------------------------------------------------------
\* Call adapter: handle_ffi_call!.  `result` and `notify` live in the future
\* of the call until it returns.  `closure` is a local of the unsafe block:
\* it is alive while the native function executes and is gone when the block
\* ends, while the native side keeps its address as user_data.  A callback
\* that arrives later runs on whatever the address holds by then.

CallIds == 1..MaxInFlight
Addrs == 1..MaxAddrs

\* the payload by which the native side answers the request of call c
PayloadOf(c) == [null |-> FALSE, utf8 |-> TRUE, text |-> <<IF c = 1 THEN "a" ELSE "b">>]

\* the outcomes call c can receive from its own completion
OwnOutcomes(c) == {trampoline(st, PayloadOf(c)).val : st \in {"RET_OK", "RET_ERR"}}

\* addresses holding a closure that is alive
LiveAt(a) == \E c \in CallIds : a_pc[c] = "native" /\ a_closure[c] = a

\* let mut closure = result_cb; $waku_fn(ctx, args, cb, &mut closure)
Invoke(c, a) ==
    /\ ~a_crashed
    /\ a_pc[c] = "idle"
    /\ ~LiveAt(a)
    /\ a_pc' = [a_pc EXCEPT ![c] = "native"]
    /\ a_closure' = [a_closure EXCEPT ![c] = a]
    /\ a_mem' = [a_mem EXCEPT ![a] = c]
    /\ a_pending' = a_pending \cup {[call |-> c, user_data |-> a]}
    /\ a_issued' = Append(a_issued, c)
    /\ UNCHANGED <<a_result, a_permit, a_code, a_final, a_crashed, a_from, a_completed,
                   a_delivered, a_access>>

\* the closure of call d runs with outcome v: result = r; notify_clone.notify_one()
RunClosure(d, v, of) ==
    /\ a_result' = [a_result EXCEPT ![d] = v]
    /\ a_permit' = [a_permit EXCEPT ![d] = TRUE]
    /\ a_from' = [a_from EXCEPT ![d] = @ \cup {of}]
    /\ UNCHANGED a_crashed

\* trampoline: let closure = &mut *(user_data as *mut F); closure(result)
Complete(r, st, intact) ==
    /\ ~a_crashed
    /\ r \in a_pending
    /\ a_pending' = a_pending \ {r}
    /\ a_completed' = Append(a_completed, r.call)
    /\ a_delivered' = [a_delivered EXCEPT
                          ![r.call] = Append(@, trampoline(st, PayloadOf(r.call)).val)]
    /\ a_access' = [a_access EXCEPT
                       ![r.call] = IF a_pc[r.call] = "native" THEN "live" ELSE "released"]
    /\ LET v == trampoline(st, PayloadOf(r.call)).val
           d == a_mem[r.user_data]
       IN  IF LiveAt(r.user_data)
           THEN RunClosure(d, v, r.call)
           ELSE \* user_data dangles
                IF intact /\ a_pc[d] \in {"native", "waiting"}
                THEN RunClosure(d, v, r.call)
                ELSE /\ a_crashed' = TRUE
                     /\ UNCHANGED <<a_result, a_permit, a_from>>
    /\ UNCHANGED <<a_pc, a_closure, a_code, a_final, a_mem, a_issued>>

\* the native function returns its code; the unsafe block ends
NativeReturn(c, code) ==
    /\ ~a_crashed
    /\ a_pc[c] = "native"
    /\ a_pc' = [a_pc EXCEPT ![c] = "waiting"]
    /\ a_code' = [a_code EXCEPT ![c] = code]
    /\ UNCHANGED <<a_result, a_permit, a_closure, a_final, a_mem, a_pending,
                   a_crashed, a_from, a_issued, a_completed, a_delivered, a_access>>

\* notify.notified().await; $resp_hndlr(code, result)
Await(c) ==
    /\ ~a_crashed
    /\ a_pc[c] = "waiting"
    /\ a_permit[c]
    /\ a_permit' = [a_permit EXCEPT ![c] = FALSE]
    /\ a_final' = [a_final EXCEPT ![c] = handle_response(a_code[c], a_result[c])]
    /\ a_pc' = [a_pc EXCEPT ![c] = "done"]
    /\ UNCHANGED <<a_result, a_closure, a_code, a_mem, a_pending, a_crashed,
                   a_from, a_issued, a_completed, a_delivered, a_access>>

CallInit ==
    /\ a_pc = [c \in CallIds |-> "idle"]
    /\ a_result = [c \in CallIds |-> Undefined]
    /\ a_permit = [c \in CallIds |-> FALSE]
    /\ a_closure = [c \in CallIds |-> 0]
    /\ a_code = [c \in CallIds |-> "RET_OK"]
    /\ a_final = [c \in CallIds |-> ResOk(<<>>)]
    /\ a_mem = [a \in Addrs |-> 0]
    /\ a_pending = {}
    /\ a_crashed = FALSE
    /\ a_from = [c \in CallIds |-> {}]
    /\ a_issued = <<>>
    /\ a_completed = <<>>
    /\ a_delivered = [c \in CallIds |-> <<>>]
    /\ a_access = [c \in CallIds |-> "none"]

CallNext ==
    \/ \E c \in CallIds, a \in Addrs : Invoke(c, a) /\ CallFrame
    \/ \E c \in CallIds, a \in Addrs, st \in {"RET_OK", "RET_ERR"}, intact \in BOOLEAN :
           Complete([call |-> c, user_data |-> a], st, intact) /\ CallFrame
    \/ \E c \in CallIds, code \in {"RET_OK", "RET_ERR"} : NativeReturn(c, code) /\ CallFrame
    \/ \E c \in CallIds : Await(c) /\ CallFrame

CallIdle == CallInit

\* C10 (as claimed): when two calls are in flight together and the native
\* side completes them in the reverse of the order of issue, a completion is
\* written into, and wakes, only the slot of its own call, and a caller that
\* returns holds the outcome of its own call.
C10_NoCrossTalk ==
    (a_issued = <<1, 2>> /\ a_completed = <<2, 1>>)
    => \A c \in CallIds :
          /\ a_from[c] \subseteq {c}
          /\ a_result[c] \in {Undefined} \cup OwnOutcomes(c)
          /\ a_pc[c] = "done" =>
                 a_final[c] \in {handle_response(a_code[c], v) : v \in OwnOutcomes(c)}

\* C11 (as claimed): a call whose callback the native side invoked exactly
\* once, before or after the native function returned, is never lost: the
\* callback runs to completion, the call's notification is stored until the
\* caller has consumed it, and the caller returns exactly the delivered outcome.
C11_OnceDelivered ==
    \A c \in CallIds :
        Len(a_delivered[c]) = 1 =>
            /\ ~a_crashed
            /\ a_from[c] = {c} => (a_pc[c] = "done" \/ a_permit[c])
            /\ (a_pc[c] = "done" /\ a_from[c] = {c}) =>
                   a_final[c] = handle_response(a_code[c], a_delivered[c][1])

\* C12 (as claimed): no callback ever finds the closure of its call released.
C12_SlotAlive == \A c \in CallIds : a_access[c] # "released"

\* C34: every call returns to its caller once the native function has
\* returned, also when the native side never invokes the callback: a call
\* that waits on its notification eventually is done (unless the process
\* died)
C34_CallReturns ==
    \A c \in CallIds : (a_pc[c] = "waiting") ~> (a_pc[c] = "done" \/ a_crashed)

--------------------------------------------------------------------------
\* Argument buffers.  waku_relay_publish_message (node/relay.rs) hands the
\* native function raw pointers obtained with CString::into_raw and takes them
\* back with CString::from_raw once the function has returned.
\* waku_store_query (node/store.rs) keeps the CStrings as locals of the async
\* function and passes as_ptr(); the locals live until the function's future
\* completes or is dropped.

ArgFns == {"waku_relay_publish_message", "waku_store_query"}

Buffers == {"message", "pubsub_topic", "json_query", "peer_addr"}

BuffersOf(f) == IF f = "waku_relay_publish_message" THEN {"message", "pubsub_topic"}
                ELSE {"json_query", "peer_addr"}

NoBuffers == [b \in Buffers |-> "none"]

\* the record of one release
Released(b) == [fn |-> g_fn, buf |-> b, native |-> g_native, cb |-> g_cb, pc |-> g_pc]

\* dropping the buffers bs, in the order the code drops them
ReleaseAll(order) ==
    /\ g_bufs' = [b \in Buffers |-> IF \E i \in DOMAIN order : order[i] = b
                                     THEN "released" ELSE g_bufs[b]]
    /\ g_log' = g_log \o [i \in DOMAIN order |-> Released(order[i])]

\* relay.rs 118-126: message_ptr and pubsub_topic_ptr, into_raw
\* store.rs 144-152: json_query; peer_addr.parse().expect(); peer_addr
BuildArgs ==
    /\ g_pc = "start"
    /\ IF g_fn = "waku_relay_publish_message"
       THEN /\ g_bufs' = [g_bufs EXCEPT !["message"] = "held", !["pubsub_topic"] = "held"]
            /\ g_pc' = "ready"
            /\ UNCHANGED g_log
       ELSE IF g_ok
            THEN /\ g_bufs' = [g_bufs EXCEPT !["json_query"] = "held", !["peer_addr"] = "held"]
                 /\ g_pc' = "ready"
                 /\ UNCHANGED g_log
            ELSE \* the expect() at store.rs 151 panics: json_query is dropped by the unwinding
                 /\ g_bufs' = [g_bufs EXCEPT !["json_query"] = "released"]
                 /\ g_log' = Append(g_log, [Released("json_query") EXCEPT !.pc = "panicked"])
                 /\ g_pc' = "panicked"
    /\ UNCHANGED <<g_fn, g_ok, g_native, g_cb, g_calls>>

\* faulty variant: pointers taken from temporaries that are dropped before the call
CallNativeMut ==
    /\ g_pc = "ready"
    /\ g_native' = "running"
    /\ g_pc' = "native"
    /\ ReleaseAll(IF g_fn = "waku_relay_publish_message" THEN <<"message", "pubsub_topic">>
                  ELSE <<"json_query", "peer_addr">>)
    /\ UNCHANGED <<g_fn, g_ok, g_cb, g_calls>>

\* relay.rs 129-140: the timeout argument is converted, then waku_relay_publish runs
\* store.rs 154-161 / macros.rs 59-64: $waku_fn(ctx, args, cb, user_data)
CallNative ==
    /\ g_pc = "ready"
    /\ IF g_fn = "waku_relay_publish_message" /\ ~g_ok
       THEN \* the expect() at relay.rs 137 panics: the raw pointers are never taken back
            /\ g_pc' = "panicked"
            /\ UNCHANGED g_native
       ELSE /\ g_native' = "running"
            /\ g_pc' = "native"
    /\ UNCHANGED <<g_fn, g_ok, g_bufs, g_cb, g_log, g_calls>>

\* the native side invokes the callback of a store query, while the native
\* function executes or after it has returned; afterwards the closure it
\* reaches through user_data is gone, and the process may crash
ArgCallback(intact) ==
    /\ g_fn = "waku_store_query"
    /\ g_pc \in {"native", "waiting"}
    /\ ~g_cb
    /\ IF g_native = "running" \/ intact
       THEN g_cb' = TRUE /\ UNCHANGED g_pc
       ELSE g_pc' = "crashed" /\ UNCHANGED g_cb
    /\ UNCHANGED <<g_fn, g_ok, g_bufs, g_native, g_log, g_calls>>

\* the native function returns control
ArgNativeReturn ==
    /\ g_pc = "native"
    /\ g_native' = "returned"
    /\ g_pc' = IF g_fn = "waku_relay_publish_message" THEN "release" ELSE "waiting"
    /\ UNCHANGED <<g_fn, g_ok, g_bufs, g_cb, g_log, g_calls>>

\* relay.rs 141-146: drop(CString::from_raw(..)) twice, then the response is decoded
ReleaseRaw ==
    /\ g_pc = "release"
    /\ ReleaseAll(<<"message", "pubsub_topic">>)
    /\ g_pc' = "done"
    /\ UNCHANGED <<g_fn, g_ok, g_native, g_cb, g_calls>>

\* macros.rs 68-71 and store.rs 162: notified().await returns, the response is
\* handled, the function ends and its locals are dropped in reverse order
ArgAwait ==
    /\ g_pc = "waiting"
    /\ g_cb
    /\ ReleaseAll(<<"peer_addr", "json_query">>)
    /\ g_pc' = "done"
    /\ UNCHANGED <<g_fn, g_ok, g_native, g_cb, g_calls>>

\* the caller drops the future while it is suspended at notified().await
DropFuture ==
    /\ g_pc = "waiting"
    /\ ReleaseAll(<<"peer_addr", "json_query">>)
    /\ g_pc' = "cancelled"
    /\ UNCHANGED <<g_fn, g_ok, g_native, g_cb, g_calls>>

\* the client makes its next call
ArgNextCall(f, ok) ==
    /\ g_pc \in {"done", "cancelled"}
    /\ g_calls < MaxArgCalls
    /\ g_fn' = f
    /\ g_ok' = ok
    /\ g_pc' = "start"
    /\ g_bufs' = NoBuffers
    /\ g_native' = "notcalled"
    /\ g_cb' = FALSE
    /\ g_calls' = g_calls + 1
    /\ UNCHANGED g_log

ArgInit ==
    /\ g_fn \in ArgFns
    /\ g_ok \in BOOLEAN
    /\ g_pc = "start"
    /\ g_bufs = NoBuffers
    /\ g_native = "notcalled"
    /\ g_cb = FALSE
    /\ g_log = <<>>
    /\ g_calls = 1

ArgIdle ==
    /\ g_fn = "waku_store_query"
    /\ g_ok = TRUE
    /\ g_pc = "idle"
    /\ g_bufs = NoBuffers
    /\ g_native = "notcalled"
    /\ g_cb = FALSE
    /\ g_log = <<>>
    /\ g_calls = 0

ArgNext ==
    \/ BuildArgs /\ ArgFrame
    \/ CallNative /\ ArgFrame
    \/ \E intact \in BOOLEAN : ArgCallback(intact) /\ ArgFrame
    \/ ArgNativeReturn /\ ArgFrame
    \/ ReleaseRaw /\ ArgFrame
    \/ ArgAwait /\ ArgFrame
    \/ DropFuture /\ ArgFrame
    \/ \E f \in ArgFns, ok \in BOOLEAN : ArgNextCall(f, ok) /\ ArgFrame

\* C13: while the native function executes, every argument buffer of the
\* call is held; a buffer handed to the native function is released only
\* after the function has returned, whether or not the callback has fired by
\* then; a buffer released before any native call is released by a panic that
\* abandons the call.
C13_ArgsOutliveNativeCall ==
    /\ g_native = "running" => \A b \in BuffersOf(g_fn) : g_bufs[b] = "held"
    /\ \A i \in DOMAIN g_log :
           \/ g_log[i].native = "returned"
           \/ g_log[i].native = "notcalled" /\ g_log[i].pc = "panicked"

\* C13 witness: buffers were released after the native function returned,
\* once with the callback fired and once without
C13_Witness ==
    /\ \E i \in DOMAIN g_log : g_log[i].native = "returned" /\ g_log[i].cb
    /\ \E i \in DOMAIN g_log : g_log[i].native = "returned" /\ ~g_log[i].cb
                                /\ g_log[i].fn = "waku_store_query"

--------------------------------------------------------------------------
\* Paginated store query.  node/store.rs gives the request and response types
\* and waku_store_query, the call for one page.  The walker that carries the
\* cursor from page to page is the handle's store_query, called by
\* examples/toy-chat retrieve_history.

\* Option<T>
Some(x) == [some |-> TRUE, v |-> x]
NoneNum == [some |-> FALSE, v |-> 0]
NoneStr == [some |-> FALSE, v |-> ""]
NoneSeq == [some |-> FALSE, v |-> <<>>]

\* StoreQueryRequest::new(): a fresh request id, both time bounds set to now
StoreQueryRequest_new(uuid, now) ==
    [request_id |-> uuid,
     include_data |-> TRUE,
     pubsub_topic |-> NoneStr,
     content_topics |-> <<>>,
     time_start |-> Some(now),
     time_end |-> Some(now),
     message_hashes |-> NoneSeq,
     pagination_cursor |-> NoneNum,
     pagination_forward |-> TRUE,
     pagination_limit |-> Some(25)]

with_pubsub_topic(q, pubsub_topic) == [q EXCEPT !.pubsub_topic = pubsub_topic]

with_content_topics(q, content_topics) == [q EXCEPT !.content_topics = content_topics]

\* faulty variant: a builder that forgets the cursor
with_pagination_cursorMut(q, pagination_cursor) == q

with_pagination_cursor(q, pagination_cursor) == [q EXCEPT !.pagination_cursor = pagination_cursor]

\* the fields marked skip_serializing_if = "Option::is_none"
OptionalKeys == {"pubsub_topic", "time_start", "time_end", "message_hashes",
                 "pagination_cursor", "pagination_limit"}

\* serde_json::to_string(&query): an absent option leaves no key
to_json(q) ==
    [k \in {x \in DOMAIN q : x \notin OptionalKeys \/ q[x].some} |->
        IF k \in OptionalKeys THEN q[k].v ELSE q[k]]

\* the answers of the native store: a page of n items with or without a
\* cursor, an error, or an ok status with no payload
PageKinds == {"ok", "err", "empty_payload"}

Answers == {[kind |-> "ok", n |-> n, cursor |-> c] : n \in 0..MaxPageItems, c \in BOOLEAN}
           \cup {[kind |-> k, n |-> 0, cursor |-> FALSE] : k \in PageKinds \ {"ok"}}

\* the j-th item of the k-th page, and the cursor the k-th page returns
Item(k, j) == 10 * k + j
CursorOf(k) == 100 + k

MessagesOf(d, k) == [j \in 1..d.n |-> Item(k, j)]

\* what the native side hands to the callback for the k-th request
NativeAnswer(d, k) ==
    CASE d.kind = "ok" ->
            [ret_code |-> "RET_OK",
             data |-> [null |-> FALSE, utf8 |-> TRUE,
                       text |-> <<[messages |-> MessagesOf(d, k),
                                   pagination_cursor |-> IF d.cursor THEN Some(CursorOf(k))
                                                         ELSE NoneNum]>>]]
      [] d.kind = "err" ->
            [ret_code |-> "RET_ERR",
             data |-> [null |-> FALSE, utf8 |-> TRUE, text |-> <<"e">>]]
      [] OTHER ->
            [ret_code |-> "RET_OK",
             data |-> [null |-> TRUE, utf8 |-> TRUE, text |-> <<>>]]

\* faulty variant: a decoder that loses the messages of a page
StoreResponse_decodeMut(input) ==
    IF input = <<>> THEN ResPanic ELSE ResOk([input[1] EXCEPT !.messages = <<>>])

\* impl WakuDecode for StoreResponse: from_str(input).expect(..)
StoreResponse_decode(input) ==
    IF input = <<>> THEN ResPanic ELSE ResOk(input[1])

\* faulty variant: a failed page taken for an empty last page
handle_response_StoreResponseMut(code, result) ==
    CASE result.tag = "Success" -> StoreResponse_decode(IF result.some THEN result.text ELSE <<>>)
      [] result.tag = "Failure" -> ResOk([messages |-> <<>>, pagination_cursor |-> NoneNum])
      [] OTHER -> ResPanic

\* handle_response::<StoreResponse>(code, result)
handle_response_StoreResponse(code, result) ==
    CASE result.tag = "Success" -> StoreResponse_decode(IF result.some THEN result.text ELSE <<>>)
      [] result.tag = "Failure" -> ResErr(result.text)
      [] result.tag = "MissingCallback" -> ResPanic
      [] OTHER -> ResPanic

\* waku_store_query(ctx, query, peer_addr, timeout): one page
waku_store_query(query, d, k) ==
    LET a == NativeAnswer(d, k)
        t == trampoline(a.ret_code, a.data)
    IN  IF t.panic THEN ResPanic ELSE handle_response_StoreResponse(a.ret_code, t.val)

Reverse(seq) == [i \in 1..Len(seq) |-> seq[Len(seq) + 1 - i]]

NoResult == [kind |-> "None", text |-> <<>>]

\* store_query: build the first page request from the caller's filters, no cursor
WalkStart(topic, now) ==
    /\ s_pc = "start"
    /\ s_first' = with_content_topics(
                      with_pubsub_topic(StoreQueryRequest_new(s_uuid, now), topic),
                      <<"content_topic">>)
    /\ s_uuid' = s_uuid + 1
    /\ s_cursor' = NoneNum
    /\ s_acc' = <<>>
    /\ s_pc' = "walking"
    /\ UNCHANGED <<s_script, s_requests, s_responses, s_result>>

\* store_query: one turn of the loop: the request is the first one with the
\* cursor set; on success append the items and read the cursor; stop on an
\* absent cursor and return the reversed accumulator; on an error return it
WalkPage ==
    /\ s_pc = "walking"
    /\ Len(s_requests) < Len(s_script)
    /\ LET k == Len(s_requests) + 1
           q == with_pagination_cursor(s_first, s_cursor)
           r == waku_store_query(q, s_script[k], k)
       IN  /\ s_requests' = Append(s_requests, to_json(q))
           /\ s_responses' = Append(s_responses, r)
           /\ CASE r.kind = "Panic" ->
                       /\ s_pc' = "panicked"
                       /\ UNCHANGED <<s_cursor, s_acc, s_result>>
                 [] r.kind = "Err" ->
                       /\ s_pc' = "done"
                       /\ s_result' = ResErr(r.text)
                       /\ UNCHANGED <<s_cursor, s_acc>>
                 [] OTHER ->
                       /\ s_acc' = s_acc \o r.text.messages
                       /\ IF r.text.pagination_cursor.some
                          THEN /\ s_cursor' = r.text.pagination_cursor
                               /\ UNCHANGED <<s_pc, s_result>>
                          ELSE /\ s_pc' = "done"
                               /\ s_result' = ResOk(Reverse(s_acc \o r.text.messages))
                               /\ UNCHANGED s_cursor
    /\ UNCHANGED <<s_script, s_first, s_uuid>>

\* the scripts of the native store: the last answer ends the walk
Scripts == {sc \in UNION {[1..n -> Answers] : n \in 1..MaxPages} :
               ~(sc[Len(sc)].kind = "ok" /\ sc[Len(sc)].cursor)}

StoreInit ==
    /\ s_script \in Scripts
    /\ s_pc = "start"
    /\ s_first = StoreQueryRequest_new(0, 0)
    /\ s_cursor = NoneNum
    /\ s_acc = <<>>
    /\ s_requests = <<>>
    /\ s_responses = <<>>
    /\ s_result = NoResult
    /\ s_uuid = 1

StoreIdle ==
    /\ s_script = <<>>
    /\ s_pc = "idle"
    /\ s_first = StoreQueryRequest_new(0, 0)
    /\ s_cursor = NoneNum
    /\ s_acc = <<>>
    /\ s_requests = <<>>
    /\ s_responses = <<>>
    /\ s_result = NoResult
    /\ s_uuid = 1

StoreNext ==
    \/ \E topic \in {NoneStr, Some("pubsub_topic")}, now \in 1..2 :
           WalkStart(topic, now) /\ StoreFrame
    \/ WalkPage /\ StoreFrame

\* the first answer of the script that ends a walk
RECURSIVE FirstEnd(_, _)
FirstEnd(sc, k) ==
    IF k >= Len(sc) \/ ~(sc[k].kind = "ok" /\ sc[k].cursor) THEN k ELSE FirstEnd(sc, k + 1)

\* the items of the pages 1..k of the script, in the order received
RECURSIVE ItemsUpTo(_, _)
ItemsUpTo(sc, k) == IF k = 0 THEN <<>> ELSE ItemsUpTo(sc, k - 1) \o MessagesOf(sc[k], k)

--------------------------------------------------------------------------
\* Event dispatch: node/events.rs (the static CALLBACK), node/context.rs
\* (msg_observer) and the trampoline of macros.rs

SlotVariants == {"global", "context"}

\* what the library can hand to the registered native callback
EventKinds == {"message", "connection_change", "unrecognized", "error", "bad_utf8"}

\* a JSON event payload: well-formedness, its eventType tag and its body
EventJson(json, eventType, n) == [json |-> json, eventType |-> eventType, body |-> n]

\* the n-th delivery of the library, of the given kind
RawEvent(kind, n) ==
    LET Text(obj) == [null |-> FALSE, utf8 |-> TRUE, text |-> <<obj>>]
    IN  CASE kind = "message" ->
               [ret_code |-> "RET_OK", data |-> Text(EventJson(TRUE, "message", n))]
          [] kind = "connection_change" ->
               [ret_code |-> "RET_OK", data |-> Text(EventJson(TRUE, "connection_change", n))]
          [] kind = "unrecognized" ->
               [ret_code |-> "RET_OK", data |-> Text(EventJson(TRUE, "unrecognized", n))]
          [] kind = "error" ->
               [ret_code |-> "RET_ERR", data |-> [null |-> FALSE, utf8 |-> TRUE, text |-> <<"e">>]]
          [] OTHER ->
               [ret_code |-> "RET_OK", data |-> [null |-> FALSE, utf8 |-> FALSE, text |-> <<>>]]

\* serde_json::from_str::<Event>: Event is internally tagged by "eventType"
\* with the variants "message" and "unrecognized" and no catch-all
Event_from_str(obj) ==
    IF ~obj.json THEN [ok |-> FALSE, variant |-> "", raw |-> obj]
    ELSE IF obj.eventType = "message" THEN [ok |-> TRUE, variant |-> "WakuMessage", raw |-> obj]
    ELSE IF obj.eventType = "unrecognized" THEN [ok |-> TRUE, variant |-> "Unrecognized", raw |-> obj]
    ELSE [ok |-> FALSE, variant |-> "", raw |-> obj]

\* WakuNodeContext::waku_event_callback: the outcome of decoding and
\* matching one response
waku_event_callback(response) ==
    IF response.tag # "Success" THEN "returned"
    ELSE IF ~response.some THEN "panicked"
    ELSE LET event == Event_from_str(response.text[1])
         IN  IF ~event.ok THEN "panicked"
             ELSE IF event.variant = "WakuMessage" THEN "returned"
             ELSE "panicked"

\* the handlers: the initial closure |_| {}, the default panic_callback, the
\* decoding waku_event_callback, a user closure, and a user closure that
\* registers another handler while it runs
Handler(kind, seq) == [kind |-> kind, seq |-> seq]

UserHandlerKinds == {"user", "rereg", "waku_event_callback"}

\* faulty variant: the context starts with the closure that does nothing
InitialHandlerMut(variant) == Handler("noop", 0)

\* the handler in the slot after construction
InitialHandler(variant) ==
    IF variant = "global" THEN Handler("noop", 0) ELSE Handler("panic_callback", 0)

\* the body of a handler that registers nothing
RunHandler(kind, response) ==
    CASE kind = "panic_callback" -> "panicked"
      [] kind = "waku_event_callback" -> waku_event_callback(response)
      [] OTHER -> "returned"

\* faulty variant: the slot keeps the handler it had
set_callbackMut(slot, f) == slot

\* set_callback / *boxed_closure = Box::new(closure): the slot's new content
set_callback(slot, f) == f

\* faulty variant: a response that is not a success is not handed on
callbackMut(invocations, slot, cur) ==
    IF cur.arg.tag # "Success" THEN invocations
    ELSE Append(invocations, [event |-> cur.event, arg |-> cur.arg, handler |-> slot,
                              minSeq |-> cur.minSeq, outcome |-> "started"])

\* callback / trampoline: the decoded response is handed to the handler in
\* the slot
callback(invocations, slot, cur) ==
    Append(invocations, [event |-> cur.event, arg |-> cur.arg, handler |-> slot,
                         minSeq |-> cur.minSeq, outcome |-> "started"])

NoEvent == [event |-> 0, arg |-> Undefined, minSeq |-> 0]

AppIdle == [pc |-> "idle", seq |-> 0]

\* the library calls the registered native callback: the bytes are decoded
\* to a response, a decoding failure is a panic
EvDeliver(kind) ==
    /\ e_status = "running" /\ e_native = "idle"
    /\ Len(e_delivered) < MaxEvents
    /\ LET n == Len(e_delivered) + 1
           raw == RawEvent(kind, n)
           r == trampoline(raw.ret_code, raw.data)
       IN  /\ e_delivered' = Append(e_delivered, raw)
           /\ IF r.panic
              THEN /\ e_status' = "aborted"
                   /\ UNCHANGED <<e_native, e_cur>>
              ELSE /\ e_native' = "decoded"
                   /\ e_cur' = [event |-> n, arg |-> r.val, minSeq |-> e_returned]
                   /\ UNCHANGED e_status
    /\ UNCHANGED <<e_variant, e_slot, e_lock, e_app, e_invocations, e_returned, e_seq>>

\* the handler is called: under the CALLBACK guard in events.rs, through
\* the user_data pointer and without the lock in the trampoline
EvInvoke ==
    /\ e_status = "running" /\ e_native = "decoded"
    /\ IF e_variant = "global"
       THEN e_lock = "free" /\ e_lock' = "native"
       ELSE UNCHANGED e_lock
    /\ e_invocations' = callback(e_invocations, e_slot, e_cur)
    /\ e_native' = "running"
    /\ UNCHANGED <<e_variant, e_slot, e_cur, e_app, e_delivered, e_returned, e_seq, e_status>>

\* the i-th invocation ends with the given outcome
Finish(outcome) ==
    /\ e_invocations' = [e_invocations EXCEPT ![Len(e_invocations)].outcome = outcome]
    /\ e_status' = CASE outcome = "returned" -> e_status
                     [] outcome = "deadlocked" -> "deadlocked"
                     [] OTHER -> "aborted"
    /\ e_native' = IF outcome = "returned" THEN "idle" ELSE e_native

\* a handler that registers nothing runs to its end; the guard of events.rs
\* is dropped after the call
EvHandlerRun ==
    /\ e_status = "running" /\ e_native = "running"
    /\ LET inv == e_invocations[Len(e_invocations)]
           outcome == RunHandler(inv.handler.kind, inv.arg)
       IN  /\ inv.handler.kind # "rereg"
           /\ Finish(outcome)
           /\ e_lock' = IF e_variant = "global" /\ outcome = "returned" THEN "free" ELSE e_lock
    /\ UNCHANGED <<e_variant, e_slot, e_cur, e_app, e_delivered, e_returned, e_seq>>

\* a handler that registers another handler from inside its invocation:
\* with the static CALLBACK the thread locks the mutex it already holds
\* (deadlock or panic); with msg_observer the box of the running closure is
\* replaced under it (undefined: the handler goes on or the process dies)
EvHandlerReregister(bad) ==
    /\ e_status = "running" /\ e_native = "running"
    /\ e_invocations[Len(e_invocations)].handler.kind = "rereg"
    /\ IF e_variant = "global"
       THEN /\ e_lock = "native"
            /\ Finish(IF bad THEN "panicked" ELSE "deadlocked")
            /\ UNCHANGED <<e_slot, e_lock, e_returned, e_seq>>
       ELSE /\ e_lock = "free"
            /\ e_slot' = set_callback(e_slot, Handler("user", e_seq + 1))
            /\ e_seq' = e_seq + 1
            /\ Finish(IF bad THEN "crashed" ELSE "returned")
            /\ e_returned' = IF bad THEN e_returned ELSE e_seq + 1
            /\ UNCHANGED e_lock
    /\ UNCHANGED <<e_variant, e_cur, e_app, e_delivered>>

\* the application registers a handler: the slot is replaced under the
\* lock; replacing the box of a closure the trampoline is running is
\* undefined (the process goes on or dies)
EvRegister(kind, bad) ==
    /\ e_status = "running" /\ e_app.pc = "idle"
    /\ e_seq < MaxRegs
    /\ e_lock = "free"
    /\ bad => (e_variant = "context" /\ e_native = "running")
    /\ e_slot' = set_callback(e_slot, Handler(kind, e_seq + 1))
    /\ e_seq' = e_seq + 1
    /\ e_app' = [pc |-> "registering", seq |-> e_seq + 1]
    /\ e_lock' = IF e_variant = "context" THEN "app" ELSE e_lock
    /\ e_status' = IF bad THEN "aborted" ELSE e_status
    /\ UNCHANGED <<e_variant, e_native, e_cur, e_delivered, e_invocations, e_returned>>

\* waku_sys::waku_set_event_callback has been called and the registration
\* returns; the msg_observer guard is dropped
EvRegisterReturn ==
    /\ e_status = "running" /\ e_app.pc = "registering"
    /\ e_returned' = e_app.seq
    /\ e_app' = AppIdle
    /\ e_lock' = IF e_variant = "context" THEN "free" ELSE e_lock
    /\ UNCHANGED <<e_variant, e_slot, e_native, e_cur, e_delivered, e_invocations, e_seq,
                   e_status>>

EvInit ==
    /\ e_variant \in SlotVariants
    /\ e_slot = InitialHandler(e_variant)
    /\ e_lock = "free"
    /\ e_native = "idle"
    /\ e_cur = NoEvent
    /\ e_app = AppIdle
    /\ e_delivered = <<>>
    /\ e_invocations = <<>>
    /\ e_returned = 0
    /\ e_seq = 0
    /\ e_status = "running"

EvIdle ==
    /\ e_variant = "global"
    /\ e_slot = InitialHandler("global")
    /\ e_lock = "free"
    /\ e_native = "idle"
    /\ e_cur = NoEvent
    /\ e_app = AppIdle
    /\ e_delivered = <<>>
    /\ e_invocations = <<>>
    /\ e_returned = 0
    /\ e_seq = 0
    /\ e_status = "running"

EvNext ==
    \/ \E kind \in EventKinds : EvDeliver(kind) /\ EvFrame
    \/ EvInvoke /\ EvFrame
    \/ EvHandlerRun /\ EvFrame
    \/ \E bad \in BOOLEAN : EvHandlerReregister(bad) /\ EvFrame
    \/ \E kind \in UserHandlerKinds, bad \in BOOLEAN : EvRegister(kind, bad) /\ EvFrame
    \/ EvRegisterReturn /\ EvFrame

\* the decoded response of the i-th delivery
ResponseOf(i) == trampoline(e_delivered[i].ret_code, e_delivered[i].data)

\* C17: every delivered event invokes the handler installed at that moment
\* exactly once and in the order of delivery: the i-th invocation is of the
\* i-th delivery and carries its response; nothing is kept back, doubled or
\* dropped (only the delivery in progress, or one whose bytes could not be
\* decoded, which stops the process, has no invocation)
C17_OncePerEventInOrder ==
    LET n == Len(e_invocations)
        d == Len(e_delivered)
    IN  /\ n <= d
        /\ \A i \in 1..n : /\ e_invocations[i].event = i
                           /\ ~ResponseOf(i).panic
                           /\ e_invocations[i].arg = ResponseOf(i).val
        /\ n < d => /\ n = d - 1
                    /\ \/ e_native = "decoded" /\ e_cur.event = d
                       \/ e_status = "aborted" /\ ResponseOf(d).panic

\* C17 witness: a message, a connection change and an error response were
\* delivered and handed to a user handler, one invocation each, in order
C17_Witness ==
    /\ Len(e_delivered) = 3 /\ Len(e_invocations) = 3
    /\ e_native = "idle" /\ e_status = "running"
    /\ e_invocations[1].arg.tag = "Success" /\ e_invocations[1].arg.some
    /\ e_invocations[1].arg.text[1].eventType = "message"
    /\ e_invocations[2].arg.tag = "Success" /\ e_invocations[2].arg.some
    /\ e_invocations[2].arg.text[1].eventType = "connection_change"
    /\ e_invocations[3].arg.tag = "Failure"
    /\ \A i \in 1..3 : e_invocations[i].handler.kind = "user"

\* the event type of the i-th delivery is none of the recognized kinds
UnknownType(i) ==
    /\ ~ResponseOf(i).panic
    /\ ResponseOf(i).val.tag = "Success" /\ ResponseOf(i).val.some
    /\ ResponseOf(i).val.text[1].json
    /\ ResponseOf(i).val.text[1].eventType # "message"

\* C18: an event whose type is not a recognized kind is decoded to the
\* Unrecognized variant holding the raw value and handled without a panic,
\* so the dispatch goes on to later events
C18_UnrecognizedHandled ==
    \A i \in 1..Len(e_invocations) :
        (/\ UnknownType(i)
         /\ e_invocations[i].handler.kind = "waku_event_callback"
         /\ e_invocations[i].outcome # "started")
        => /\ Event_from_str(e_invocations[i].arg.text[1]).ok
           /\ Event_from_str(e_invocations[i].arg.text[1]).variant = "Unrecognized"
           /\ e_invocations[i].outcome = "returned"
           /\ e_status = "running"

C20_ReregisterCompletes ==
    /\ e_native = "running" => e_lock # "native"
    /\ \A i \in 1..Len(e_invocations) :
          e_invocations[i].handler.kind = "rereg" =>
              e_invocations[i].outcome \in {"started", "returned"}

\* C31: registration and dispatch exclude each other: while a registration
\* holds the guard of the slot and replaces its handler, the dispatcher is
\* not inside an invocation of the slot's handler
C31_RegistrationExcludesDispatch ==
    e_lock = "app" => e_native # "running"

--------------------------------------------------------------------------
\* Concurrent deliveries: the library calls the registered native callback
\* from several of its threads.  callback of events.rs calls the handler
\* through the guard of CALLBACK; the trampoline of utils.rs / macros.rs,
\* registered by context.rs, calls it through user_data and takes no lock.

Deliverers == 1..MaxDeliverers

\* a thread of the library calls the native callback: the bytes are decoded
DispDeliver(t, kind) ==
    /\ d_status = "running" /\ d_pc[t] = "idle"
    /\ d_count < MaxEvents
    /\ LET raw == RawEvent(kind, d_count + 1)
           r == trampoline(raw.ret_code, raw.data)
       IN  IF r.panic
           THEN /\ d_status' = "aborted"
                /\ UNCHANGED <<d_pc, d_cur>>
           ELSE /\ d_pc' = [d_pc EXCEPT ![t] = "decoded"]
                /\ d_cur' = [d_cur EXCEPT ![t] = r.val]
                /\ UNCHANGED d_status
    /\ d_count' = d_count + 1
    /\ UNCHANGED <<d_variant, d_lock>>

\* the handler is entered: CALLBACK.deref().lock().expect(..).as_mut() in
\* events.rs, user_data(result) in the trampoline
DispInvoke(t) ==
    /\ d_status = "running" /\ d_pc[t] = "decoded"
    /\ IF d_variant = "global"
       THEN CanLock(d_lock) /\ d_lock' = t
       ELSE UNCHANGED d_lock
    /\ d_pc' = [d_pc EXCEPT ![t] = "running"]
    /\ UNCHANGED <<d_variant, d_cur, d_count, d_status>>

\* the handler returns; the guard of events.rs is dropped
DispReturn(t) ==
    /\ d_status = "running" /\ d_pc[t] = "running"
    /\ d_lock' = IF d_lock = t THEN 0 ELSE d_lock
    /\ d_pc' = [d_pc EXCEPT ![t] = "idle"]
    /\ d_cur' = [d_cur EXCEPT ![t] = Undefined]
    /\ UNCHANGED <<d_variant, d_count, d_status>>

DispInit ==
    /\ d_variant \in SlotVariants
    /\ d_lock = 0
    /\ d_pc = [t \in Deliverers |-> "idle"]
    /\ d_cur = [t \in Deliverers |-> Undefined]
    /\ d_count = 0
    /\ d_status = "running"

DispIdle ==
    /\ d_variant = "global"
    /\ d_lock = 0
    /\ d_pc = [t \in Deliverers |-> "idle"]
    /\ d_cur = [t \in Deliverers |-> Undefined]
    /\ d_count = 0
    /\ d_status = "running"

DispNext ==
    \/ \E t \in Deliverers, kind \in EventKinds : DispDeliver(t, kind) /\ DispFrame
    \/ \E t \in Deliverers : DispInvoke(t) /\ DispFrame
    \/ \E t \in Deliverers : DispReturn(t) /\ DispFrame

\* C38: the handler is never executed by two threads at the same time:
\* of two events delivered concurrently, the invocation for the second
\* starts only after the invocation for the first has returned
C38_OneInvocationAtATime ==
    Cardinality({t \in Deliverers : d_pc[t] = "running"}) <= 1

--------------------------------------------------------------------------
\* Single calls: the timeout argument of the native calls (node/peers.rs,
\* node/relay.rs, node/lightpush.rs, node/filter.rs), the text forms of
\* content topics and message hashes (general/contenttopic.rs,
\* general/messagehash.rs) and the registration of the event handler

I32_MAX == 2147483647

\* Duration::as_millis() is a u128: it is kept as three 16-bit limbs, least
\* significant first
LimbSamples == {0, 1, 32767, 32768, 65535}

Timeouts ==
    {[some |-> FALSE, limbs |-> <<0, 0, 0>>]}
        \cup {[some |-> TRUE, limbs |-> <<a, b, c>>] : a, b, c \in LimbSamples}

\* i32::try_from(u128): the value when it is at most i32::MAX
try_into_i32(limbs) ==
    IF limbs[3] = 0 /\ limbs[2] < 32768
    THEN [ok |-> TRUE, val |-> limbs[2] * 65536 + limbs[1]]
    ELSE [ok |-> FALSE, val |-> 0]

\* faulty variant: the low 32 bits of the milliseconds, as a signed number
connect_timeoutMut(timeout) ==
    IF ~timeout.some THEN [panic |-> FALSE, ms |-> 0]
    ELSE [panic |-> FALSE,
          ms |-> (IF timeout.limbs[2] < 32768 THEN timeout.limbs[2]
                  ELSE timeout.limbs[2] - 65536) * 65536 + timeout.limbs[1]]

\* the timeout argument of waku_connect / waku_connect_peerid:
\* timeout.map(|d| d.as_millis().try_into().unwrap_or(i32::MAX)).unwrap_or(0)
connect_timeout(timeout) ==
    IF ~timeout.some THEN [panic |-> FALSE, ms |-> 0]
    ELSE LET r == try_into_i32(timeout.limbs)
         IN  [panic |-> FALSE, ms |-> IF r.ok THEN r.val ELSE I32_MAX]

\* the timeout argument of the publish and filter calls:
\* timeout.map(|d| d.as_millis().try_into().expect(..)).unwrap_or(0)
publish_timeout(timeout) ==
    IF ~timeout.some THEN [panic |-> FALSE, ms |-> 0]
    ELSE LET r == try_into_i32(timeout.limbs)
         IN  IF r.ok THEN [panic |-> FALSE, ms |-> r.val] ELSE [panic |-> TRUE, ms |-> 0]

ConnectFns == {"waku_connect_peer_with_address", "waku_connect_peer_with_id"}

PublishFns == {"waku_relay_publish_message", "waku_lightpush_publish", "waku_filter_subscribe",
               "waku_filter_ping", "waku_filter_unsubscribe"}

\* waku_set_event_callback: the slot is replaced and the native
\* registration is called when the lock is taken; what the native call
\* yields is not looked at
RegInputs == [variant : SlotVariants, poisoned : BOOLEAN, accepted : BOOLEAN]

waku_set_event_callback(variant, poisoned) ==
    IF poisoned
    THEN [result |-> IF variant = "context" THEN "Err" ELSE "panic",
          replaced |-> FALSE, native |-> FALSE]
    ELSE [result |-> "Ok", replaced |-> TRUE, native |-> TRUE]

NoOutput == [kind |-> "none"]

\* a connect call hands its timeout to the native function
UnitConnect ==
    /\ u_pc = "input" /\ u_fn \in ConnectFns
    /\ u_out' = connect_timeout(u_in)
    /\ u_pc' = "done"
    /\ UNCHANGED <<u_fn, u_in>>

\* a publish or filter call hands its timeout to the native function
UnitPublish ==
    /\ u_pc = "input" /\ u_fn \in PublishFns
    /\ u_out' = publish_timeout(u_in)
    /\ u_pc' = "done"
    /\ UNCHANGED <<u_fn, u_in>>

\* the application registers an event handler
UnitRegister ==
    /\ u_pc = "input" /\ u_fn = "waku_set_event_callback"
    /\ u_out' = waku_set_event_callback(u_in.variant, u_in.poisoned)
    /\ u_pc' = "done"
    /\ UNCHANGED <<u_fn, u_in>>

\* the milliseconds of a timeout fit in an i32
Fits(timeout) == timeout.limbs[3] = 0 /\ timeout.limbs[2] <= 32767

\* C21: the registration returns an error when the native registration
\* fails and success only when the native library accepted it
C21_RegistrationReportsNative ==
    (u_pc = "done" /\ u_fn = "waku_set_event_callback" /\ u_out.native)
    => /\ ~u_in.accepted => u_out.result = "Err"
       /\ u_out.result = "Ok" => u_in.accepted

\* C22: the connect calls pass the milliseconds when they fit in an i32,
\* i32::MAX when they do not, 0 without a timeout, and never panic
C22_ConnectTimeoutClamped ==
    (u_pc = "done" /\ u_fn \in ConnectFns)
    => /\ ~u_out.panic
       /\ ~u_in.some => u_out.ms = 0
       /\ (u_in.some /\ Fits(u_in)) => u_out.ms = u_in.limbs[2] * 65536 + u_in.limbs[1]
       /\ (u_in.some /\ ~Fits(u_in)) => u_out.ms = I32_MAX
       /\ u_out.ms >= 0

\* C22 witness: a connect call with a timeout of 2^31 ms passed i32::MAX
C22_Witness ==
    /\ u_pc = "done" /\ u_fn = "waku_connect_peer_with_id"
    /\ u_in.some /\ u_in.limbs = <<0, 32768, 0>>
    /\ u_out.ms = I32_MAX

\* C23: the publish and filter calls clamp a timeout beyond the i32 range
\* to i32::MAX and do not abort
C23_PublishTimeoutClamped ==
    (u_pc = "done" /\ u_fn \in PublishFns /\ u_in.some /\ ~Fits(u_in))
    => /\ ~u_out.panic
       /\ u_out.ms = I32_MAX

\* the pieces the topic strings are built of
TopicTokens == {<<"/">>, <<"a">>, <<"P", "r", "o", "t", "o">>, <<"r", "l", "p">>}

RECURSIVE Flatten(_)
Flatten(ts) == IF ts = <<>> THEN <<>> ELSE Head(ts) \o Flatten(Tail(ts))

\* the texts of up to max tokens
TopicStrings(max) ==
    {Flatten(ts) : ts \in UNION {[1..n -> TopicTokens] : n \in 0..max}}

\* str::to_lowercase on the letters of the topic strings
to_lowercase(s) == [i \in 1..Len(s) |-> IF s[i] = "P" THEN "p" ELSE s[i]]

\* Encoding::from_str: the lower-cased text selects the variant
Encoding_from_str(s) ==
    LET encoding == to_lowercase(s)
    IN  CASE encoding = <<"p", "r", "o", "t", "o">> -> [tag |-> "Proto", value |-> <<>>]
          [] encoding = <<"r", "l", "p">> -> [tag |-> "Rlp", value |-> <<>>]
          [] encoding = <<"r", "f", "c", "2", "6">> -> [tag |-> "Rfc26", value |-> <<>>]
          [] OTHER -> [tag |-> "Unknown", value |-> encoding]

\* Display for Encoding
Encoding_fmt(e) ==
    CASE e.tag = "Proto" -> <<"p", "r", "o", "t", "o">>
      [] e.tag = "Rlp" -> <<"r", "l", "p">>
      [] e.tag = "Rfc26" -> <<"r", "f", "c", "2", "6">>
      [] OTHER -> e.value

NoMatch == <<0>>

\* scanf!(s, "/{}/{}/{}/{:/.+?/}", ..): every group is the lazy .+? and the
\* match is anchored, so each group is the shortest non-empty text after
\* which the rest still matches. The slashes that end the next n groups
\* when the first of them begins at position p.
RECURSIVE Cuts(_, _, _)
Cuts(s, p, n) ==
    IF n = 0 THEN (IF p <= Len(s) THEN <<>> ELSE NoMatch)
    ELSE LET C == {q \in (p + 1)..Len(s) : s[q] = "/" /\ Cuts(s, q + 1, n - 1) # NoMatch}
         IN  IF C = {} THEN NoMatch
             ELSE LET q == CHOOSE x \in C : \A y \in C : x <= y
                  IN  <<q>> \o Cuts(s, q + 1, n - 1)

\* the text of s after the slash that ends the third group
EncodingText(s) == SubSeq(s, Cuts(s, 2, 3)[3] + 1, Len(s))

\* WakuContentTopic::from_str
WakuContentTopic_from_str(s) ==
    IF Len(s) >= 1 /\ s[1] = "/" /\ Cuts(s, 2, 3) # NoMatch
    THEN LET c == Cuts(s, 2, 3)
         IN  [ok |-> TRUE,
              application_name |-> SubSeq(s, 2, c[1] - 1),
              version |-> SubSeq(s, c[1] + 1, c[2] - 1),
              content_topic_name |-> SubSeq(s, c[2] + 1, c[3] - 1),
              encoding |-> Encoding_from_str(EncodingText(s))]
    ELSE [ok |-> FALSE, application_name |-> <<>>, version |-> <<>>,
          content_topic_name |-> <<>>, encoding |-> [tag |-> "Unknown", value |-> <<>>]]

\* faulty variant: the encoding is left out
WakuContentTopic_fmtMut(t) ==
    <<"/">> \o t.application_name \o <<"/">> \o t.version \o <<"/">> \o t.content_topic_name

\* Display for WakuContentTopic
WakuContentTopic_fmt(t) ==
    <<"/">> \o t.application_name \o <<"/">> \o t.version \o <<"/">> \o t.content_topic_name
        \o <<"/">> \o Encoding_fmt(t.encoding)

\* the bytes of a MessageHash
HashLen == 32

\* arrays of len bytes that hold one value everywhere but at one position
HashBytes(len) ==
    {[i \in 1..len |-> IF i = p THEN y ELSE x] : x \in 0..255, y \in {0, 171}, p \in 1..len}

HexUpper == <<"0", "1", "2", "3", "4", "5", "6", "7", "8", "9", "A", "B", "C", "D", "E", "F">>

HexLower == <<"0", "1", "2", "3", "4", "5", "6", "7", "8", "9", "a", "b", "c", "d", "e", "f">>

\* faulty variant: {b:X}, no padding to two digits
hex_byteMut(b) ==
    IF b < 16 THEN <<HexUpper[b + 1]>> ELSE <<HexUpper[(b \div 16) + 1], HexUpper[(b % 16) + 1]>>

\* {b:02X}: two upper-case hex digits
hex_byte(b) == <<HexUpper[(b \div 16) + 1], HexUpper[(b % 16) + 1]>>

\* MessageHash::to_hex_string
RECURSIVE to_hex_string(_)
to_hex_string(bytes) ==
    IF bytes = <<>> THEN <<>> ELSE hex_byte(Head(bytes)) \o to_hex_string(Tail(bytes))

IsHexDigit(c) == \E k \in 1..16 : HexUpper[k] = c \/ HexLower[k] = c

HexValue(c) == (CHOOSE k \in 1..16 : HexUpper[k] = c \/ HexLower[k] = c) - 1

\* Vec::from_hex: an even number of hex digits of either case
from_hex(s) ==
    IF Len(s) % 2 # 0 \/ \E i \in 1..Len(s) : ~IsHexDigit(s[i])
    THEN [ok |-> FALSE, bytes |-> <<>>]
    ELSE [ok |-> TRUE,
          bytes |-> [i \in 1..(Len(s) \div 2) |-> HexValue(s[2 * i - 1]) * 16 + HexValue(s[2 * i])]]

\* MessageHash::from_str: an optional 0x, the hex digits, exactly 32 bytes
MessageHash_from_str(s) ==
    LET t == IF Len(s) >= 2 /\ s[1] = "0" /\ s[2] = "x" THEN SubSeq(s, 3, Len(s)) ELSE s
        r == from_hex(t)
    IN  IF r.ok /\ Len(r.bytes) = HashLen THEN r ELSE [ok |-> FALSE, bytes |-> <<>>]

\* a topic string is parsed and the topic rendered
UnitTopic ==
    /\ u_pc = "input" /\ u_fn = "WakuContentTopic"
    /\ LET t == WakuContentTopic_from_str(u_in)
       IN  u_out' = [ok |-> t.ok, topic |-> t,
                     rendered |-> IF t.ok THEN WakuContentTopic_fmt(t) ELSE <<>>]
    /\ u_pc' = "done"
    /\ UNCHANGED <<u_fn, u_in>>

\* a hash is rendered and the text parsed
UnitHash ==
    /\ u_pc = "input" /\ u_fn = "MessageHash"
    /\ LET hex == to_hex_string(u_in)
           r == MessageHash_from_str(hex)
       IN  u_out' = [hex |-> hex, ok |-> r.ok, bytes |-> r.bytes]
    /\ u_pc' = "done"
    /\ UNCHANGED <<u_fn, u_in>>

UnitInit ==
    /\ u_pc = "input"
    /\ u_out = NoOutput
    /\ \/ u_fn \in ConnectFns \cup PublishFns /\ u_in \in Timeouts
       \/ u_fn = "waku_set_event_callback" /\ u_in \in RegInputs
       \/ u_fn = "WakuContentTopic" /\ u_in \in TopicStrings(MaxTopicLen)
       \/ u_fn = "MessageHash" /\ u_in \in HashBytes(HashLen)

UnitIdle ==
    /\ u_fn = "none"
    /\ u_in = <<>>
    /\ u_pc = "done"
    /\ u_out = NoOutput

UnitNext ==
    \/ UnitConnect /\ UnitFrame
    \/ UnitPublish /\ UnitFrame
    \/ UnitRegister /\ UnitFrame
    \/ UnitTopic /\ UnitFrame
    \/ UnitHash /\ UnitFrame

\* C24 as stated: every string that parses as a content topic is rendered
\* back to exactly that string
C24_ParseRenderIdentity ==
    (u_pc = "done" /\ u_fn = "WakuContentTopic" /\ u_out.ok) => u_out.rendered = u_in

\* C24 amended: a string that parses is rendered back with its encoding
\* component in lower case and everything before it unchanged, so the
\* rendering is the string itself when that component has no upper-case
\* letter, and the rendering parses to the same topic
C24_ParseRenderCanonical ==
    (u_pc = "done" /\ u_fn = "WakuContentTopic" /\ u_out.ok)
    => LET n == Len(u_in) - Len(EncodingText(u_in))
       IN  /\ u_out.rendered = SubSeq(u_in, 1, n) \o to_lowercase(EncodingText(u_in))
           /\ EncodingText(u_in) = to_lowercase(EncodingText(u_in)) => u_out.rendered = u_in
           /\ WakuContentTopic_from_str(u_out.rendered) = u_out.topic

\* C24 witness: /a/a/a/rlp was parsed to the Rlp encoding and rendered
C24_Witness ==
    /\ u_pc = "done" /\ u_fn = "WakuContentTopic" /\ u_out.ok
    /\ u_in = <<"/", "a", "/", "a", "/", "a", "/", "r", "l", "p">>
    /\ u_out.topic.encoding.tag = "Rlp"
    /\ u_out.rendered = u_in

\* C25: the hex text of 32 bytes parses to a hash with exactly these bytes
C25_HashRoundTrip ==
    (u_pc = "done" /\ u_fn = "MessageHash") => /\ u_out.ok
                                              /\ u_out.bytes = u_in
                                              /\ Len(u_out.hex) = 2 * HashLen

\* C25 witness: a hash with the bytes 0x0A and 0xAB went through the text form
C25_Witness ==
    /\ u_pc = "done" /\ u_fn = "MessageHash" /\ u_out.ok
    /\ u_in[1] = 10 /\ u_in[2] = 171
    /\ u_out.hex[1] = "0" /\ u_out.hex[2] = "A" /\ u_out.hex[3] = "A" /\ u_out.hex[4] = "B"
    /\ u_out.bytes = u_in

--------------------------------------------------------------------------
\* Specifications

\* the initial state of each specification: its own part as constructed, the
\* other parts idle
InitFlag == FlagInit /\ ClsIdle /\ NodeIdle /\ CallIdle /\ ArgIdle /\ StoreIdle /\ EvIdle /\ UnitIdle /\ LockIdle /\ DispIdle

InitClassify == ClsInit /\ FlagInit /\ NodeIdle /\ CallIdle /\ ArgIdle /\ StoreIdle /\ EvIdle /\ UnitIdle /\ LockIdle /\ DispIdle

InitNode == NodeInit /\ FlagInit /\ ClsIdle /\ CallIdle /\ ArgIdle /\ StoreIdle /\ EvIdle /\ UnitIdle /\ LockIdle /\ DispIdle

InitCall == CallInit /\ FlagInit /\ ClsIdle /\ NodeIdle /\ ArgIdle /\ StoreIdle /\ EvIdle /\ UnitIdle /\ LockIdle /\ DispIdle

InitArgs == ArgInit /\ FlagInit /\ ClsIdle /\ NodeIdle /\ CallIdle /\ StoreIdle /\ EvIdle /\ UnitIdle /\ LockIdle /\ DispIdle

InitStore == StoreInit /\ FlagInit /\ ClsIdle /\ NodeIdle /\ CallIdle /\ ArgIdle /\ EvIdle /\ UnitIdle /\ LockIdle /\ DispIdle

InitEvents == EvInit /\ FlagInit /\ ClsIdle /\ NodeIdle /\ CallIdle /\ ArgIdle /\ StoreIdle /\ UnitIdle /\ LockIdle /\ DispIdle

InitUnit == UnitInit /\ FlagInit /\ ClsIdle /\ NodeIdle /\ CallIdle /\ ArgIdle /\ StoreIdle /\ EvIdle /\ LockIdle /\ DispIdle

SpecFlag == InitFlag /\ [][FlagNext]_vars

SpecClassify == InitClassify /\ [][ClsNext]_vars

SpecNode == InitNode /\ [][NodeNext]_vars

SpecCall == InitCall /\ [][CallNext]_vars

SpecArgs == InitArgs /\ [][ArgNext]_vars

SpecStore == InitStore /\ [][StoreNext]_vars

\* the call adapter with the scheduling of the caller: a caller whose
\* notification is stored is resumed; whether and when the native side
\* invokes a callback is its own choice
SpecCallLive ==
    InitCall /\ [][CallNext]_vars /\ \A c \in CallIds : WF_vars(Await(c) /\ CallFrame)

InitLock == LockInit /\ FlagInit /\ ClsIdle /\ NodeIdle /\ CallIdle /\ ArgIdle /\ StoreIdle /\ EvIdle /\ UnitIdle /\ DispIdle

SpecLock == InitLock /\ [][LockNext]_vars

InitDispatch == DispInit /\ FlagInit /\ ClsIdle /\ NodeIdle /\ CallIdle /\ ArgIdle /\ StoreIdle /\ EvIdle /\ UnitIdle /\ LockIdle

SpecDispatch == InitDispatch /\ [][DispNext]_vars

SpecEvents == InitEvents /\ [][EvNext]_vars

SpecUnit == InitUnit /\ [][UnitNext]_vars

====
